---- MODULE Spec2Model ----
(***************************************************************************)
(* Model of the ha_rt integration: the asset reconciliation engine         *)
(* (asset_sync.py), the ticket deduplication handler (__init__.py) and the *)
(* RT REST2 gateway (rt_client.py), against a remote RT instance holding   *)
(* an asset catalog and a ticket queue.                                    *)
(*                                                                         *)
(* Handlers run one at a time in the specifications Spec and SpecTickets:  *)
(* an action is a whole handler, all its remote calls included.  Each      *)
(* remote call of a handler answers "ok", "fail" (a non-2xx status or an   *)
(* aiohttp ClientError) or "exc" (an error the gateway does not catch,     *)
(* such as asyncio.TimeoutError), as the fault plan of the invocation      *)
(* says.  The variables last, calls, faults and pre record one invocation  *)
(* and are cleared when its response has been delivered.                   *)
(***************************************************************************)
EXTENDS Integers, Sequences, FiniteSets, TLC

VARIABLES
    reg,      \* device registry: device id -> [state, attrs]
    assets,   \* remote asset catalog: asset id (index) -> [dev, status, attrs]
    tickets,  \* remote ticket queue: ticket id (index) -> [dev, subject, status, asset, comments]
    last,     \* the invocation that ran last and what it returned
    calls,    \* remote requests issued by the invocation that ran last, in order
    faults,   \* fault plan of the invocation that ran last
    pre,      \* the asset catalog as it was when the invocation that ran last began
    thist,    \* results of the create_ticket service calls so far, in order
    procs,    \* invocations in progress, where invocations overlap
    flow,     \* configuration flow and entry setup: what was entered, what was done
    io        \* argument and result of a pure function under study

vars == <<reg, assets, tickets, last, calls, faults, pre, thist, procs, flow, io>>

\* The variables of the other parts of the model, which a part leaves alone.
others == <<procs, flow, io>>
Parked == procs = <<>> /\ flow = <<>> /\ io = <<>>

----------------------------------------------------------------------------
\* Bounds of the model.

DeviceIds == {"d1", "d2"}
DeviceOrder == <<"d1", "d2">>
AttrVals == {"a1", "a2"}
Subjects == {"s1", "s2"}
MaxInitAssets == 2
MaxAssets == 3
MaxFaults == 1
MaxTicketCalls == 3
MaxStrLen == 5
MaxEvents == 1

NoDev == "none"      \* an asset without DeviceId custom field / a call without device argument
NoAttrs == "unset"

----------------------------------------------------------------------------
\* Helpers.

Min(S) == CHOOSE x \in S : \A y \in S : x <= y

RECURSIVE SetToSeq(_)
SetToSeq(S) == IF S = {} THEN <<>> ELSE <<Min(S)>> \o SetToSeq(S \ {Min(S)})

Physical(r, d) == d \in DeviceIds /\ r[d].state = "physical"
Present(r, d) == d \in DeviceIds /\ r[d].state # "absent"

\* The assets the remote system returns for a DeviceId search in the catalog:
\* deleted assets are not searched.
ActiveIdsFor(as, d) ==
    {i \in 1..Len(as) : as[i].dev = d /\ as[i].status = "active"}

ActiveIds(as) == {i \in 1..Len(as) : as[i].status = "active"}

\* The answer the fault plan f gives to one request.
Outcome(f, call, dev, id) ==
    IF \E x \in f : x.call = call /\ x.dev = dev /\ x.id = id
    THEN (CHOOSE x \in f : x.call = call /\ x.dev = dev /\ x.id = id).out
    ELSE "ok"

Req(call, dev, id, out) == [call |-> call, dev |-> dev, id |-> id, out |-> out]

----------------------------------------------------------------------------
\* Remote API gateway (rt_client.py).  Each operator issues one request,
\* appends it to the log cs and gives back the new catalog, the log, the
\* returned value and whether an exception left the gateway.

\* search_asset letting a non-200 answer or a ClientError leave the call.
search_asset_Raising(as, cs, f, d) ==
    LET out == Outcome(f, "search_asset", d, 0)
        hit == ActiveIdsFor(as, d)
    IN  [assets |-> as,
         calls  |-> Append(cs, Req("search_asset", d, 0, out)),
         exc    |-> out # "ok",
         ret    |-> IF out = "ok" /\ hit # {} THEN Min(hit) ELSE 0]

search_asset(as, cs, f, d) ==
    LET out == Outcome(f, "search_asset", d, 0)
        hit == ActiveIdsFor(as, d)
    IN  [assets |-> as,
         calls  |-> Append(cs, Req("search_asset", d, 0, out)),
         exc    |-> out = "exc",
         ret    |-> IF out = "ok" /\ hit # {} THEN Min(hit) ELSE 0]

create_asset(as, cs, f, d, attrs) ==
    LET out == Outcome(f, "create_asset", d, 0)
    IN  [assets |-> IF out = "ok"
                    THEN Append(as, [dev |-> d, status |-> "active", attrs |-> attrs])
                    ELSE as,
         calls  |-> Append(cs, Req("create_asset", d, 0, out)),
         exc    |-> out = "exc",
         ret    |-> IF out = "ok" THEN Len(as) + 1 ELSE 0]

\* update_asset(asset_id, name=..., manufacturer=..., ...): writes the
\* attribute fields, returns True on 2xx and False otherwise.
update_asset_attrs(as, cs, f, id, attrs) ==
    LET out == Outcome(f, "update_attrs", NoDev, id)
    IN  [assets |-> IF out = "ok" THEN [as EXCEPT ![id].attrs = attrs] ELSE as,
         calls  |-> Append(cs, Req("update_attrs", NoDev, id, out)),
         exc    |-> out = "exc",
         ret    |-> out = "ok"]

StatusWritten == "deleted"

\* update_asset(asset_id, status="deleted").
update_asset_status(as, cs, f, id) ==
    LET out == Outcome(f, "update_status", NoDev, id)
    IN  [assets |-> IF out = "ok" THEN [as EXCEPT ![id].status = StatusWritten] ELSE as,
         calls  |-> Append(cs, Req("update_status", NoDev, id, out)),
         exc    |-> out = "exc",
         ret    |-> out = "ok"]

\* list_assets(catalog): the active assets of the catalog.
list_assets(as, cs, f) ==
    LET out == Outcome(f, "list_assets", NoDev, 0)
    IN  [assets |-> as,
         calls  |-> Append(cs, Req("list_assets", NoDev, 0, out)),
         exc    |-> out = "exc",
         ret    |-> IF out = "ok" THEN SetToSeq(ActiveIds(as)) ELSE <<>>]

\* get_asset(asset_id): the asset's detail, or None.
get_asset(as, cs, f, id) ==
    LET out == Outcome(f, "get_asset", NoDev, id)
    IN  [assets |-> as,
         calls  |-> Append(cs, Req("get_asset", NoDev, id, out)),
         exc    |-> out = "exc",
         ret    |-> out = "ok"]

----------------------------------------------------------------------------
\* Asset reconciliation engine (asset_sync.py).

\* The create branch of sync_device as a working gateway would run it.
CreateCallBound(as, cs, f, d, attrs) ==
    LET c == create_asset(as, cs, f, d, attrs)
    IN  [assets |-> c.assets, calls |-> c.calls,
         result |-> IF c.exc THEN "raised" ELSE IF c.ret # 0 THEN "True" ELSE "False"]

\* The create branch of sync_device: create_asset is called with the keyword
\* arguments manufacturer, model, serial_number, sw_version, hw_version,
\* config_url, mac_address, area and address, none of which
\* RTClient.create_asset(self, catalog, name, device_id, device_info_url="")
\* accepts.  Binding the arguments raises TypeError before any request is
\* issued.
CreateCall(as, cs, f, d, attrs) ==
    [assets |-> as, calls |-> cs, result |-> "raised"]

\* sync_device without the checks of lines 31-45: it goes on to the search
\* whatever the registry says of the device.
sync_device_NoSkip(r, as, cs, f, d) ==
    LET s == search_asset(as, cs, f, d)
    IN  IF s.exc THEN [assets |-> as, calls |-> s.calls, result |-> "raised"]
        ELSE IF s.ret # 0
        THEN LET u == update_asset_attrs(as, s.calls, f, s.ret, r[d].attrs)
             IN  [assets |-> u.assets, calls |-> u.calls,
                  result |-> IF u.exc THEN "raised"
                             ELSE IF u.ret THEN "True" ELSE "False"]
        ELSE CreateCall(as, s.calls, f, d, r[d].attrs)

\* sync_device: "True" synced, "False" failed, "None" skipped, "raised" when
\* an exception leaves the function.
sync_device(r, as, cs, f, d) ==
    IF ~Present(r, d) THEN [assets |-> as, calls |-> cs, result |-> "False"]
    ELSE IF ~Physical(r, d) THEN [assets |-> as, calls |-> cs, result |-> "None"]
    ELSE LET s == search_asset(as, cs, f, d)
         IN  IF s.exc THEN [assets |-> as, calls |-> s.calls, result |-> "raised"]
             ELSE IF s.ret # 0
             THEN LET u == update_asset_attrs(as, s.calls, f, s.ret, r[d].attrs)
                  IN  [assets |-> u.assets, calls |-> u.calls,
                       result |-> IF u.exc THEN "raised"
                                  ELSE IF u.ret THEN "True" ELSE "False"]
             ELSE CreateCall(as, s.calls, f, d, r[d].attrs)

\* mark_asset_deleted reporting success whatever update_asset returned.
mark_asset_deleted_IgnoreResult(as, cs, f, d) ==
    LET s == search_asset(as, cs, f, d)
    IN  IF s.exc THEN [assets |-> as, calls |-> s.calls, result |-> "raised"]
        ELSE IF s.ret = 0 THEN [assets |-> as, calls |-> s.calls, result |-> "False"]
        ELSE LET u == update_asset_status(as, s.calls, f, s.ret)
             IN  [assets |-> u.assets, calls |-> u.calls,
                  result |-> IF u.exc THEN "raised" ELSE "True"]

\* mark_asset_deleted removing the record instead of writing its status.
mark_asset_deleted_Hard(as, cs, f, d) ==
    LET s == search_asset(as, cs, f, d)
    IN  IF s.exc THEN [assets |-> as, calls |-> s.calls, result |-> "raised"]
        ELSE IF s.ret = 0 THEN [assets |-> as, calls |-> s.calls, result |-> "False"]
        ELSE LET u == update_asset_status(as, s.calls, f, s.ret)
             IN  [assets |-> IF u.ret
                             THEN SubSeq(as, 1, s.ret - 1) \o SubSeq(as, s.ret + 1, Len(as))
                             ELSE as,
                  calls  |-> u.calls,
                  result |-> IF u.exc THEN "raised"
                             ELSE IF u.ret THEN "True" ELSE "False"]

\* mark_asset_deleted: "True" / "False", or "raised".
mark_asset_deleted(as, cs, f, d) ==
    LET s == search_asset(as, cs, f, d)
    IN  IF s.exc THEN [assets |-> as, calls |-> s.calls, result |-> "raised"]
        ELSE IF s.ret = 0 THEN [assets |-> as, calls |-> s.calls, result |-> "False"]
        ELSE LET u == update_asset_status(as, s.calls, f, s.ret)
             IN  [assets |-> u.assets, calls |-> u.calls,
                  result |-> IF u.exc THEN "raised"
                             ELSE IF u.ret THEN "True" ELSE "False"]

\* The cleanup loop without the test "device_id not in valid_device_ids".
RECURSIVE CleanupLoop_NoValidCheck(_, _, _, _, _, _)
CleanupLoop_NoValidCheck(valid, ids, as, cs, f, n) ==
    IF ids = <<>> THEN [assets |-> as, calls |-> cs, raised |-> FALSE, deleted |-> n]
    ELSE LET id == Head(ids)
             g  == get_asset(as, cs, f, id)
         IN  IF g.exc THEN [assets |-> as, calls |-> g.calls, raised |-> TRUE, deleted |-> n]
             ELSE IF ~g.ret \/ as[id].dev = NoDev
             THEN CleanupLoop_NoValidCheck(valid, Tail(ids), as, g.calls, f, n)
             ELSE LET u == update_asset_status(as, g.calls, f, id)
                  IN  IF u.exc
                      THEN [assets |-> as, calls |-> u.calls, raised |-> TRUE, deleted |-> n]
                      ELSE CleanupLoop_NoValidCheck(valid, Tail(ids), u.assets, u.calls, f,
                                                    IF u.ret THEN n + 1 ELSE n)

\* The cleanup loop ending at the first detail fetch that fails.
RECURSIVE CleanupLoop_StopOnFailure(_, _, _, _, _, _)
CleanupLoop_StopOnFailure(valid, ids, as, cs, f, n) ==
    IF ids = <<>> THEN [assets |-> as, calls |-> cs, raised |-> FALSE, deleted |-> n]
    ELSE LET id == Head(ids)
             g  == get_asset(as, cs, f, id)
         IN  IF g.exc THEN [assets |-> as, calls |-> g.calls, raised |-> TRUE, deleted |-> n]
             ELSE IF ~g.ret
             THEN [assets |-> as, calls |-> g.calls, raised |-> FALSE, deleted |-> n]
             ELSE IF as[id].dev = NoDev \/ as[id].dev \in valid
             THEN CleanupLoop_StopOnFailure(valid, Tail(ids), as, g.calls, f, n)
             ELSE LET u == update_asset_status(as, g.calls, f, id)
                  IN  IF u.exc
                      THEN [assets |-> as, calls |-> u.calls, raised |-> TRUE, deleted |-> n]
                      ELSE CleanupLoop_StopOnFailure(valid, Tail(ids), u.assets, u.calls, f,
                                                     IF u.ret THEN n + 1 ELSE n)

\* The loop of cleanup_orphaned_assets over the listed asset ids.
RECURSIVE CleanupLoop(_, _, _, _, _, _)
CleanupLoop(valid, ids, as, cs, f, n) ==
    IF ids = <<>> THEN [assets |-> as, calls |-> cs, raised |-> FALSE, deleted |-> n]
    ELSE LET id == Head(ids)
             g  == get_asset(as, cs, f, id)
         IN  IF g.exc THEN [assets |-> as, calls |-> g.calls, raised |-> TRUE, deleted |-> n]
             ELSE IF ~g.ret THEN CleanupLoop(valid, Tail(ids), as, g.calls, f, n)
             ELSE IF as[id].dev = NoDev THEN CleanupLoop(valid, Tail(ids), as, g.calls, f, n)
             ELSE IF as[id].dev \in valid THEN CleanupLoop(valid, Tail(ids), as, g.calls, f, n)
             ELSE LET u == update_asset_status(as, g.calls, f, id)
                  IN  IF u.exc
                      THEN [assets |-> as, calls |-> u.calls, raised |-> TRUE, deleted |-> n]
                      ELSE CleanupLoop(valid, Tail(ids), u.assets, u.calls, f,
                                       IF u.ret THEN n + 1 ELSE n)

\* cleanup_orphaned_assets taking every device of the registry as valid,
\* without the test "device.entry_type is None".
cleanup_orphaned_assets_AnyEntryType(r, as, cs, f) ==
    LET valid == {d \in DeviceIds : Present(r, d)}
        l == list_assets(as, cs, f)
    IN  IF l.exc THEN [assets |-> as, calls |-> l.calls, raised |-> TRUE, deleted |-> 0]
        ELSE CleanupLoop(valid, l.ret, as, l.calls, f, 0)

cleanup_orphaned_assets(r, as, cs, f) ==
    LET valid == {d \in DeviceIds : Physical(r, d)}
        l == list_assets(as, cs, f)
    IN  IF l.exc THEN [assets |-> as, calls |-> l.calls, raised |-> TRUE, deleted |-> 0]
        ELSE CleanupLoop(valid, l.ret, as, l.calls, f, 0)

NoTally == [synced |-> 0, failed |-> 0, skipped |-> 0, deleted |-> 0]

\* The device loop without its try/except: the first exception ends it.
RECURSIVE SyncLoop_NoCatch(_, _, _, _, _, _)
SyncLoop_NoCatch(r, ds, as, cs, f, t) ==
    IF ds = <<>> THEN [assets |-> as, calls |-> cs, tally |-> t]
    ELSE LET s == sync_device(r, as, cs, f, Head(ds))
             t2 == IF s.result = "True" THEN [t EXCEPT !.synced = @ + 1]
                   ELSE IF s.result = "False" THEN [t EXCEPT !.failed = @ + 1]
                   ELSE IF s.result = "None" THEN [t EXCEPT !.skipped = @ + 1]
                   ELSE t
         IN  IF s.result = "raised" THEN [assets |-> s.assets, calls |-> s.calls, tally |-> t2]
             ELSE SyncLoop_NoCatch(r, Tail(ds), s.assets, s.calls, f, t2)

\* The device loop catching an exception without counting the device.
RECURSIVE SyncLoop_DropRaised(_, _, _, _, _, _)
SyncLoop_DropRaised(r, ds, as, cs, f, t) ==
    IF ds = <<>> THEN [assets |-> as, calls |-> cs, tally |-> t]
    ELSE LET s == sync_device(r, as, cs, f, Head(ds))
             t2 == IF s.result = "True" THEN [t EXCEPT !.synced = @ + 1]
                   ELSE IF s.result = "False" THEN [t EXCEPT !.failed = @ + 1]
                   ELSE IF s.result = "None" THEN [t EXCEPT !.skipped = @ + 1]
                   ELSE t
         IN  SyncLoop_DropRaised(r, Tail(ds), s.assets, s.calls, f, t2)

\* The device loop of sync_all_devices.
RECURSIVE SyncLoop(_, _, _, _, _, _)
SyncLoop(r, ds, as, cs, f, t) ==
    IF ds = <<>> THEN [assets |-> as, calls |-> cs, tally |-> t]
    ELSE LET s == sync_device(r, as, cs, f, Head(ds))
             t2 == IF s.result = "True" THEN [t EXCEPT !.synced = @ + 1]
                   ELSE IF s.result = "False" THEN [t EXCEPT !.failed = @ + 1]
                   ELSE IF s.result = "None" THEN [t EXCEPT !.skipped = @ + 1]
                   ELSE [t EXCEPT !.failed = @ + 1]
         IN  SyncLoop(r, Tail(ds), s.assets, s.calls, f, t2)

\* device_registry.devices.values(): the devices of the registry, in order.
Listed(r) == SelectSeq(DeviceOrder, LAMBDA d : Present(r, d))

\* sync_all_devices adding a comment to the first ticket after the cleanup.
sync_all_devices_Commenting(r, as, cs, f) ==
    LET s == SyncLoop(r, Listed(r), as, cs, f, NoTally)
        c == cleanup_orphaned_assets(r, s.assets, s.calls, f)
    IN  [assets |-> c.assets,
         calls  |-> IF c.raised THEN c.calls
                    ELSE Append(c.calls, Req("add_comment", NoDev, 1, "ok")),
         raised |-> c.raised,
         tally  |-> IF c.raised THEN NoTally ELSE [s.tally EXCEPT !.deleted = c.deleted]]

sync_all_devices(r, as, cs, f) ==
    LET s == SyncLoop(r, Listed(r), as, cs, f, NoTally)
        c == cleanup_orphaned_assets(r, s.assets, s.calls, f)
    IN  [assets |-> c.assets, calls |-> c.calls, raised |-> c.raised,
         tally  |-> IF c.raised THEN NoTally ELSE [s.tally EXCEPT !.deleted = c.deleted]]

----------------------------------------------------------------------------
\* Ticket side of the gateway, and the create_ticket service handler
\* (__init__.py).

OpenTicketIds(tk) == {i \in 1..Len(tk) : tk[i].status = "open"}

\* search_tickets_for_asset(queue, asset_id, subject): the open tickets of the
\* queue that refer to the asset and carry the subject, lowest id first.
search_tickets_for_asset(tk, cs, f, d, aid, subj) ==
    LET out == Outcome(f, "search_tickets_for_asset", d, 0)
        hit == {i \in OpenTicketIds(tk) : tk[i].asset = aid /\ tk[i].subject = subj}
    IN  [calls |-> Append(cs, Req("search_tickets_for_asset", d, aid, out)),
         exc   |-> out # "ok",
         ret   |-> IF out = "ok" THEN SetToSeq(hit) ELSE <<>>]

\* add_comment swallowing a failed answer.
add_comment_Soft(tk, cs, f, d, tid) ==
    LET out == Outcome(f, "add_comment", d, 0)
    IN  [tickets |-> IF out = "ok" THEN [tk EXCEPT ![tid].comments = @ + 1] ELSE tk,
         calls   |-> Append(cs, Req("add_comment", d, tid, out)),
         exc     |-> FALSE]

add_comment(tk, cs, f, d, tid) ==
    LET out == Outcome(f, "add_comment", d, 0)
    IN  [tickets |-> IF out = "ok" THEN [tk EXCEPT ![tid].comments = @ + 1] ELSE tk,
         calls   |-> Append(cs, Req("add_comment", d, tid, out)),
         exc     |-> out # "ok"]

\* create_ticket on a remote system that files one open ticket for a device
\* and subject: a second create gets the id of the open one.
create_ticket_Idempotent(tk, cs, f, d, subj) ==
    LET out == Outcome(f, "create_ticket", d, 0)
        same == {i \in OpenTicketIds(tk) : tk[i].dev = d /\ tk[i].subject = subj}
    IN  [tickets |-> IF out = "ok" /\ same = {}
                     THEN Append(tk, [dev |-> d, subject |-> subj, status |-> "open",
                                      asset |-> 0, comments |-> 0])
                     ELSE tk,
         calls   |-> Append(cs, Req("create_ticket", d, 0, out)),
         exc     |-> out # "ok",
         ret     |-> IF out # "ok" THEN 0
                     ELSE IF same = {} THEN Len(tk) + 1 ELSE Min(same)]

create_ticket(tk, cs, f, d, subj) ==
    LET out == Outcome(f, "create_ticket", d, 0)
    IN  [tickets |-> IF out = "ok"
                     THEN Append(tk, [dev |-> d, subject |-> subj, status |-> "open",
                                      asset |-> 0, comments |-> 0])
                     ELSE tk,
         calls   |-> Append(cs, Req("create_ticket", d, 0, out)),
         exc     |-> out # "ok",
         ret     |-> IF out = "ok" THEN Len(tk) + 1 ELSE 0]

\* link_ticket_to_asset letting every failed answer leave the call.
link_ticket_to_asset_Raising(tk, cs, f, d, tid, aid) ==
    LET out == Outcome(f, "link_ticket_to_asset", d, 0)
    IN  [tickets |-> IF out = "ok" THEN [tk EXCEPT ![tid].asset = aid] ELSE tk,
         calls   |-> Append(cs, Req("link_ticket_to_asset", d, tid, out)),
         exc     |-> out # "ok",
         ret     |-> out = "ok"]

link_ticket_to_asset(tk, cs, f, d, tid, aid) ==
    LET out == Outcome(f, "link_ticket_to_asset", d, 0)
    IN  [tickets |-> IF out = "ok" THEN [tk EXCEPT ![tid].asset = aid] ELSE tk,
         calls   |-> Append(cs, Req("link_ticket_to_asset", d, tid, out)),
         exc     |-> out = "exc",
         ret     |-> out = "ok"]

TicketRaised(tk, cs, aid) ==
    [tickets |-> tk, calls |-> cs, raised |-> TRUE, action |-> "none",
     ticket_id |-> 0, asset_id |-> aid]

\* The handler without the branch "if existing": it always creates.
DedupOrCreate_AlwaysCreate(tk, cs, f, d, subj, aid) ==
    LET e == IF aid # 0 THEN search_tickets_for_asset(tk, cs, f, d, aid, subj)
             ELSE [calls |-> cs, exc |-> FALSE, ret |-> <<>>]
    IN  IF e.exc THEN TicketRaised(tk, e.calls, aid)
        ELSE LET c == create_ticket(tk, e.calls, f, d, subj)
             IN  IF c.exc THEN TicketRaised(tk, c.calls, aid)
                 ELSE IF aid = 0
                 THEN [tickets |-> c.tickets, calls |-> c.calls, raised |-> FALSE,
                       action |-> "created", ticket_id |-> c.ret, asset_id |-> aid]
                 ELSE LET l == link_ticket_to_asset(c.tickets, c.calls, f, d, c.ret, aid)
                      IN  IF l.exc THEN TicketRaised(c.tickets, l.calls, aid)
                          ELSE [tickets |-> l.tickets, calls |-> l.calls, raised |-> FALSE,
                                action |-> "created", ticket_id |-> c.ret, asset_id |-> aid]

\* The part of handle_create_ticket after the asset lookup.
DedupOrCreate(tk, cs, f, d, subj, aid) ==
    LET e == IF aid # 0 THEN search_tickets_for_asset(tk, cs, f, d, aid, subj)
             ELSE [calls |-> cs, exc |-> FALSE, ret |-> <<>>]
    IN  IF e.exc THEN TicketRaised(tk, e.calls, aid)
        ELSE IF e.ret # <<>>
        THEN LET c == add_comment(tk, e.calls, f, d, e.ret[1])
             IN  IF c.exc THEN TicketRaised(tk, c.calls, aid)
                 ELSE [tickets |-> c.tickets, calls |-> c.calls, raised |-> FALSE,
                       action |-> "commented", ticket_id |-> e.ret[1], asset_id |-> aid]
        ELSE LET c == create_ticket(tk, e.calls, f, d, subj)
             IN  IF c.exc THEN TicketRaised(tk, c.calls, aid)
                 ELSE IF aid = 0
                 THEN [tickets |-> c.tickets, calls |-> c.calls, raised |-> FALSE,
                       action |-> "created", ticket_id |-> c.ret, asset_id |-> aid]
                 ELSE LET l == link_ticket_to_asset(c.tickets, c.calls, f, d, c.ret, aid)
                      IN  IF l.exc THEN TicketRaised(c.tickets, l.calls, aid)
                          ELSE [tickets |-> l.tickets, calls |-> l.calls, raised |-> FALSE,
                                action |-> "created", ticket_id |-> c.ret, asset_id |-> aid]

handle_create_ticket(as, tk, cs, f, d, subj) ==
    LET s == search_asset(as, cs, f, d)
    IN  IF s.exc THEN TicketRaised(tk, s.calls, 0)
        ELSE DedupOrCreate(tk, s.calls, f, d, subj, s.ret)

----------------------------------------------------------------------------
\* Fault plans: at most MaxFaults requests of an invocation answer something
\* other than "ok".

FaultOuts == {"fail", "exc"}

RECURSIVE Plans(_, _)
Plans(U, k) ==
    IF k = 0 THEN {{}}
    ELSE LET P == Plans(U, k - 1)
             Free(F) == {y \in U : \A z \in F :
                            ~(z.call = y.call /\ z.dev = y.dev /\ z.id = y.id)}
         IN  P \cup UNION {{F \cup {x} : x \in Free(F)} : F \in P}

Keys(call, devs, ids) == {Req(call, d, i, o) : d \in devs, i \in ids, o \in FaultOuts}

\* The requests an invocation can issue, each with the answers it can get.
FirstActive(as, ds) == {Min(ActiveIdsFor(as, d)) : d \in {x \in ds : ActiveIdsFor(as, x) # {}}}

SyncDeviceFaults(r, as, d) ==
    IF ~Physical(r, d) THEN {}
    ELSE Keys("search_asset", {d}, {0}) \cup Keys("create_asset", {d}, {0})
            \cup Keys("update_attrs", {NoDev}, FirstActive(as, {d}))

MarkDeletedFaults(as, d) ==
    Keys("search_asset", {d}, {0}) \cup Keys("update_status", {NoDev}, FirstActive(as, {d}))

SweepFaults(r, as) ==
    LET valid == {d \in DeviceIds : Physical(r, d)}
    IN  Keys("search_asset", valid, {0}) \cup Keys("create_asset", valid, {0})
            \cup Keys("update_attrs", {NoDev}, FirstActive(as, valid))
            \cup Keys("list_assets", {NoDev}, {0})
            \cup Keys("get_asset", {NoDev}, ActiveIds(as))
            \cup Keys("update_status", {NoDev},
                      {i \in ActiveIds(as) : as[i].dev \notin valid \cup {NoDev}})

\* create_ticket, add_comment and search_tickets_for_asset raise on every
\* answer but "ok", so one kind of fault stands for both.
TicketFaults(as, d) ==
    Keys("search_asset", {d}, {0})
        \cup (IF ActiveIdsFor(as, d) # {}
              THEN {Req("search_tickets_for_asset", d, 0, "fail")}
                      \cup Keys("link_ticket_to_asset", {d}, {0})
              ELSE {})
        \cup {Req("add_comment", d, 0, "fail"), Req("create_ticket", d, 0, "fail")}

\* The answers are chosen for the requests the invocation issues: every
\* fault of its plan has answered a request of the log cs (a request is
\* issued once in an invocation).  A fault of create_asset is the answer the
\* remote system has ready for a create.
Live(f, cs) ==
    Cardinality({i \in 1..Len(cs) : cs[i].out # "ok"})
        = Cardinality({x \in f : x.call # "create_asset"})

----------------------------------------------------------------------------
\* State, initial states and actions.

RegAbsent == [state |-> "absent", attrs |-> NoAttrs]
RegNonPhysical == [state |-> "nonphysical", attrs |-> NoAttrs]
RegPhysical == [state : {"physical"}, attrs : AttrVals]
RegRecs == {RegAbsent, RegNonPhysical} \cup RegPhysical

\* Attributes are kept where the model reads them: on active assets that
\* carry a DeviceId.  A deleted asset without DeviceId is left out: no
\* search or listing returns it.
AssetRecs ==
    [dev : DeviceIds, status : {"active"}, attrs : AttrVals]
        \cup [dev : DeviceIds, status : {"deleted"}, attrs : {NoAttrs}]
        \cup [dev : {NoDev}, status : {"active"}, attrs : {NoAttrs}]

\* At most one active asset for each DeviceId.
Unique(as) == \A d \in DeviceIds : Cardinality(ActiveIdsFor(as, d)) <= 1

InitCatalogs ==
    {as \in UNION {[1..n -> AssetRecs] : n \in 0..MaxInitAssets} : Unique(as)}

Idle(op) ==
    [op |-> op, handler |-> "none", dev |-> NoDev, action |-> "none",
     result |-> "none", raised |-> FALSE, tally |-> NoTally]

Quiet == last.op \in {"init", "idle"}

Init ==
    /\ reg \in [DeviceIds -> {RegAbsent, RegNonPhysical, [state |-> "physical", attrs |-> "a1"]}]
    /\ assets \in InitCatalogs
    /\ tickets = <<>>
    /\ last = Idle("init")
    /\ calls = <<>>
    /\ faults = {}
    /\ pre = assets
    /\ thist = <<>>
    /\ Parked

\* The response of the invocation that ran last has been delivered.
Completed ==
    /\ ~Quiet
    /\ last' = Idle("idle")
    /\ calls' = <<>>
    /\ faults' = {}
    /\ pre' = assets
    /\ UNCHANGED <<reg, assets, tickets, thist>>
    /\ UNCHANGED others

\* What handle_device_registry_event leaves when it returns at once.
EventIgnored(as, cs) ==
    [assets |-> as, calls |-> cs, ran |-> "none", result |-> "none", raised |-> FALSE]

\* handle_device_registry_event without its try/except: an exception of the
\* sync or of mark_asset_deleted leaves the handler.
handle_device_registry_event_NoCatch(r, as, cs, f, loaded, action, d) ==
    IF d = NoDev THEN EventIgnored(as, cs)
    ELSE IF ~loaded THEN EventIgnored(as, cs)
    ELSE IF action \in {"create", "update"}
    THEN LET s == sync_device(r, as, cs, f, d)
         IN  [assets |-> s.assets, calls |-> s.calls, ran |-> "sync_device",
              result |-> s.result, raised |-> s.result = "raised"]
    ELSE IF action = "remove"
    THEN LET m == mark_asset_deleted(as, cs, f, d)
         IN  [assets |-> m.assets, calls |-> m.calls, ran |-> "mark_asset_deleted",
              result |-> m.result, raised |-> m.result = "raised"]
    ELSE EventIgnored(as, cs)

\* handle_device_registry_event(event) with event.data = {action, device_id};
\* loaded: hass.data[DOMAIN] holds the data of an entry.  ran: the function
\* it called; result: what that returned, "raised" when it raised into the
\* except clause; raised: an exception left the handler.
handle_device_registry_event(r, as, cs, f, loaded, action, d) ==
    IF d = NoDev THEN EventIgnored(as, cs)
    ELSE IF ~loaded THEN EventIgnored(as, cs)
    ELSE IF action \in {"create", "update"}
    THEN LET s == sync_device(r, as, cs, f, d)
         IN  [assets |-> s.assets, calls |-> s.calls, ran |-> "sync_device",
              result |-> s.result, raised |-> FALSE]
    ELSE IF action = "remove"
    THEN LET m == mark_asset_deleted(as, cs, f, d)
         IN  [assets |-> m.assets, calls |-> m.calls, ran |-> "mark_asset_deleted",
              result |-> m.result, raised |-> FALSE]
    ELSE EventIgnored(as, cs)

\* The registry changes device d and fires device_registry_updated, which
\* handle_device_registry_event handles: sync_device for create and update,
\* mark_asset_deleted for remove; every exception is caught and logged.
HandleDeviceRegistryEvent ==
    /\ Quiet
    /\ \E d \in DeviceIds, rec \in RegRecs :
         LET act == IF reg[d].state = "absent" THEN "create"
                    ELSE IF rec.state = "absent" THEN "remove" ELSE "update"
             r2  == [reg EXCEPT ![d] = rec]
         IN  /\ rec # reg[d]
             /\ reg' = r2
             /\ \E f \in Plans(IF act = "remove" THEN MarkDeletedFaults(assets, d)
                               ELSE SyncDeviceFaults(r2, assets, d), MaxFaults) :
                  \E res \in {handle_device_registry_event(r2, assets, <<>>, f,
                                                           TRUE, act, d)} :
                      /\ Live(f, res.calls)
                      /\ Len(res.assets) <= MaxAssets
                      /\ assets' = res.assets
                      /\ calls' = res.calls
                      /\ faults' = f
                      /\ last' = [Idle(IF act = "remove" THEN "mark_asset_deleted"
                                       ELSE "sync_device")
                                  EXCEPT !.handler = "event", !.dev = d,
                                         !.action = act, !.result = res.result]
    /\ pre' = assets
    /\ UNCHANGED <<tickets, thist>>
    /\ UNCHANGED others

\* The response of handle_sync_assets with a device_id, from what sync_device
\* returned: {"synced": 1 if success else 0, "failed": 0 if success else 1}.
\* The response has these two keys only; the other counters stay 0.
SyncResponse(result) ==
    IF result = "True" THEN [NoTally EXCEPT !.synced = 1]
    ELSE [NoTally EXCEPT !.failed = 1]

\* handle_sync_assets with a device_id: an exception of sync_device leaves
\* the handler.
HandleSyncAssetsDevice ==
    /\ Quiet
    /\ \E d \in DeviceIds :
         \E f \in Plans(SyncDeviceFaults(reg, assets, d), MaxFaults) :
            \E res \in {sync_device(reg, assets, <<>>, f, d)} :
                /\ Live(f, res.calls)
                /\ Len(res.assets) <= MaxAssets
                /\ assets' = res.assets
                /\ calls' = res.calls
                /\ faults' = f
                /\ last' = [Idle("sync_device")
                            EXCEPT !.handler = "service", !.dev = d,
                                   !.result = res.result,
                                   !.raised = (res.result = "raised"),
                                   !.tally = IF res.result = "raised" THEN NoTally
                                             ELSE SyncResponse(res.result)]
    /\ pre' = assets
    /\ UNCHANGED <<reg, tickets, thist>>
    /\ UNCHANGED others

\* The sweep as a handler runs it: sync_all_devices on the registry and the
\* catalog as they are; an exception leaves the handler.
SweepStep(handler) ==
    /\ Quiet
    /\ \E f \in Plans(SweepFaults(reg, assets), MaxFaults) :
         \E res \in {sync_all_devices(reg, assets, <<>>, f)} :
             /\ Live(f, res.calls)
             /\ Len(res.assets) <= MaxAssets
             /\ assets' = res.assets
             /\ calls' = res.calls
             /\ faults' = f
             /\ last' = [Idle("sync_all_devices")
                         EXCEPT !.handler = handler, !.raised = res.raised,
                                !.result = IF res.raised THEN "raised" ELSE "tally",
                                !.tally = res.tally]
    /\ pre' = assets
    /\ UNCHANGED <<reg, tickets, thist>>
    /\ UNCHANGED others

\* handle_sync_assets without device_id: the tally is the response.
HandleSyncAssetsAll == SweepStep("service")

\* scheduled_sync, every sync_interval hours: the tally is dropped.
ScheduledSync == SweepStep("timer")

Next ==
    \/ HandleDeviceRegistryEvent
    \/ HandleSyncAssetsDevice
    \/ HandleSyncAssetsAll
    \/ ScheduledSync
    \/ Completed

Spec == Init /\ [][Next]_vars

----------------------------------------------------------------------------
\* The create_ticket service against a catalog that does not change: device
\* d1 has been synced and has an active asset, device d2 has none.

SyncedCatalog == <<[dev |-> "d1", status |-> "active", attrs |-> "a1"]>>

InitTickets ==
    /\ reg = [d \in DeviceIds |-> [state |-> "physical", attrs |-> "a1"]]
    /\ assets = SyncedCatalog
    /\ tickets = <<>>
    /\ last = Idle("init")
    /\ calls = <<>>
    /\ faults = {}
    /\ pre = assets
    /\ thist = <<>>
    /\ Parked

\* The open tickets filed for device d with the subject subj.
OpenFor(tk, d, subj) ==
    {i \in OpenTicketIds(tk) : tk[i].dev = d /\ tk[i].subject = subj}

AllOk(cs) == \A i \in 1..Len(cs) : cs[i].out = "ok"

\* The create_ticket service call (handle_create_ticket).
HandleCreateTicket ==
    /\ Quiet
    /\ Len(thist) < MaxTicketCalls
    /\ \E d \in DeviceIds, subj \in Subjects :
         \E f \in Plans(TicketFaults(assets, d), MaxFaults) :
            \E res \in {handle_create_ticket(assets, tickets, <<>>, f, d, subj)} :
                /\ Live(f, res.calls)
                /\ tickets' = res.tickets
                /\ calls' = res.calls
                /\ faults' = f
                /\ last' = [Idle("create_ticket")
                            EXCEPT !.handler = "service", !.dev = d,
                                   !.action = res.action, !.raised = res.raised,
                                   !.result = IF res.raised THEN "raised" ELSE res.action]
                /\ thist' = Append(thist,
                              [dev |-> d, subject |-> subj, action |-> res.action,
                               ticket_id |-> res.ticket_id, raised |-> res.raised,
                               asset_id |-> res.asset_id, clean |-> AllOk(res.calls),
                               prior |-> OpenFor(tickets, d, subj),
                               after |-> OpenFor(res.tickets, d, subj)])
    /\ pre' = assets
    /\ UNCHANGED <<reg, assets>>
    /\ UNCHANGED others

\* A ticket is resolved on the remote side.
CloseTicket ==
    /\ Quiet
    /\ \E t \in OpenTicketIds(tickets) : tickets' = [tickets EXCEPT ![t].status = "closed"]
    /\ UNCHANGED <<reg, assets, last, calls, faults, pre, thist>>
    /\ UNCHANGED others

NextTickets ==
    \/ HandleCreateTicket
    \/ CloseTicket
    \/ Completed

SpecTickets == InitTickets /\ [][NextTickets]_vars

----------------------------------------------------------------------------
\* Properties.

\* Requests of the log cs.
NumReq(cs, call, dev, id) ==
    Cardinality({k \in 1..Len(cs) : cs[k].call = call /\ cs[k].dev = dev /\ cs[k].id = id})

NumCall(cs, call) == Cardinality({k \in 1..Len(cs) : cs[k].call = call})

Answered(cs, call, dev, id, out) ==
    \E k \in 1..Len(cs) :
        cs[k].call = call /\ cs[k].dev = dev /\ cs[k].id = id /\ cs[k].out = out

ValidDevices == {d \in DeviceIds : Physical(reg, d)}

C2_OneOpenTicketPerDeviceSubject ==
    (\A i \in 1..Len(thist) : thist[i].clean) =>
        /\ \A d \in DeviceIds, subj \in Subjects : Cardinality(OpenFor(tickets, d, subj)) <= 1
        /\ \A i \in 1..Len(thist) : thist[i].prior # {} => thist[i].action = "commented"

\* The first of two successive create_ticket calls for one (device, subject):
\* the device has an asset, no ticket is open for the pair, the call creates
\* one, the next call finds it still open, and every request of both answers.
C3_Pair(i) ==
    /\ i + 1 <= Len(thist)
    /\ thist[i].dev = thist[i + 1].dev
    /\ thist[i].subject = thist[i + 1].subject
    /\ thist[i].asset_id # 0
    /\ thist[i].prior = {}
    /\ thist[i].clean /\ thist[i + 1].clean
    /\ thist[i].action = "created"
    /\ thist[i].ticket_id \in thist[i + 1].prior

C3_Other(i) ==
    /\ i + 2 <= Len(thist)
    /\ thist[i + 2].dev = thist[i].dev
    /\ thist[i + 2].subject # thist[i].subject
    /\ thist[i + 2].prior = {}
    /\ thist[i + 2].clean

\* C3: for a synced device, two successive create_ticket calls with the same
\* (device, subject), the first ticket still open, return "created" and then
\* "commented" with the same ticket_id and leave one open ticket for the pair;
\* a following call for the device with another subject returns "created"
\* with another ticket_id.
C3_CreatedThenCommented ==
    \A i \in 1..Len(thist) :
        C3_Pair(i) =>
            /\ thist[i + 1].action = "commented"
            /\ thist[i + 1].ticket_id = thist[i].ticket_id
            /\ thist[i + 1].after = {thist[i].ticket_id}
            /\ C3_Other(i) =>
                  /\ thist[i + 2].action = "created"
                  /\ thist[i + 2].ticket_id # thist[i].ticket_id

\* C3 witness: the three calls have been made.
C3_Witness ==
    \E i \in 1..Len(thist) :
        /\ C3_Pair(i)
        /\ C3_Other(i)
        /\ thist[i + 1].action = "commented"
        /\ thist[i + 2].action = "created"

\* C4 (as claimed): sync_device for a physical device without asset issues
\* one create and the asset exists afterwards; for a device with an asset it
\* issues an update and no create, and the asset carries the device's
\* attributes after every such call.
C4_OneCreateThenUpdates ==
    (last.op = "sync_device" /\ Physical(reg, last.dev) /\ faults = {}) =>
        IF ActiveIdsFor(pre, last.dev) = {}
        THEN /\ last.result = "True"
             /\ NumReq(calls, "create_asset", last.dev, 0) = 1
             /\ Cardinality(ActiveIdsFor(assets, last.dev)) = 1
        ELSE /\ last.result = "True"
             /\ NumCall(calls, "create_asset") = 0
             /\ NumCall(calls, "update_attrs") = 1
             /\ \A i \in ActiveIdsFor(assets, last.dev) : assets[i].attrs = reg[last.dev].attrs

\* C5: in one sweep every asset of a listed physical device stays active and
\* gets no status update; every other active asset with a DeviceId gets at
\* most one status update, exactly one when the sweep reaches it (the listing
\* and its detail fetch answer and no exception ends the sweep), and is
\* deleted when that update answers.
C5_OrphansDeletedOnce ==
    last.op = "sync_all_devices" =>
        \A i \in ActiveIds(pre) :
            IF pre[i].dev \in ValidDevices
            THEN /\ assets[i].status = "active"
                 /\ NumReq(calls, "update_status", NoDev, i) = 0
            ELSE pre[i].dev # NoDev =>
                 /\ NumReq(calls, "update_status", NoDev, i) <= 1
                 /\ (/\ ~last.raised
                     /\ Answered(calls, "list_assets", NoDev, 0, "ok")
                     /\ Answered(calls, "get_asset", NoDev, i, "ok"))
                        => NumReq(calls, "update_status", NoDev, i) = 1
                 /\ assets[i].status = "deleted"
                        <=> Answered(calls, "update_status", NoDev, i, "ok")

\* C5 witness: a sweep over a catalog with an orphan and an asset of a listed
\* physical device, the orphan deleted.
C5_Witness ==
    /\ last.op = "sync_all_devices"
    /\ \E i, j \in ActiveIds(pre) :
          /\ pre[i].dev \in ValidDevices
          /\ pre[j].dev \notin ValidDevices \cup {NoDev}
          /\ assets[j].status = "deleted"
          /\ assets[i].status = "active"

\* C6 (as claimed): a sweep over N physical devices none of which has an
\* asset, the create call failing for exactly one of them, attempts a create
\* for all N and returns synced = N - 1 and failed = 1.
C6_OneCreateFails ==
    (/\ last.op = "sync_all_devices"
     /\ \A d \in DeviceIds : Present(reg, d) => Physical(reg, d) /\ ActiveIdsFor(pre, d) = {}
     /\ \E d \in ValidDevices : faults = {Req("create_asset", d, 0, "fail")})
        => /\ NumCall(calls, "create_asset") = Cardinality(ValidDevices)
           /\ last.tally.synced = Cardinality(ValidDevices) - 1
           /\ last.tally.failed = 1

\* What the sweep that ran last must have tallied for listed device d, read
\* from the registry and the requests: a non-physical device is skipped, an
\* update that answers is a sync, everything else (a refused update, an
\* exception of a request, the exception of the create branch) is a failure.
SweptAs(d) ==
    IF ~Physical(reg, d) THEN "skipped"
    ELSE IF \E i \in ActiveIdsFor(pre, d) : Answered(calls, "update_attrs", NoDev, i, "ok")
    THEN "synced"
    ELSE "failed"

ListedDevices == {d \in DeviceIds : Present(reg, d)}

CleanupException ==
    \E k \in 1..Len(calls) :
        calls[k].call \in {"list_assets", "get_asset", "update_status"} /\ calls[k].out = "exc"

\* C7: an exception during one device's sync does not end the sweep: every
\* listed physical device is processed, the device counts as one failed, and
\* unless the cleanup itself raises the call returns its tallies.
C7_ExceptionDoesNotAbortSweep ==
    last.op = "sync_all_devices" =>
        /\ \A d \in ValidDevices : NumReq(calls, "search_asset", d, 0) = 1
        /\ NumCall(calls, "list_assets") = 1
        /\ ~CleanupException =>
              /\ ~last.raised
              /\ last.tally.failed = Cardinality({d \in ListedDevices : SweptAs(d) = "failed"})
              /\ last.tally.synced = Cardinality({d \in ListedDevices : SweptAs(d) = "synced"})
              /\ last.tally.skipped = Cardinality({d \in ListedDevices : SweptAs(d) = "skipped"})

\* C7 witness: the sync of d1 raised, d2 was synced after it, and the sweep
\* returned one failed and one synced.
C7_Witness ==
    /\ last.op = "sync_all_devices"
    /\ Answered(calls, "search_asset", "d1", 0, "exc")
    /\ \E i \in ActiveIdsFor(pre, "d2") : Answered(calls, "update_attrs", NoDev, i, "ok")
    /\ ~last.raised
    /\ last.tally.failed = 1
    /\ last.tally.synced = 1

\* The asset mark_asset_deleted found: the search answered and the catalog
\* held an active asset with the DeviceId.
MarkFound ==
    /\ Answered(calls, "search_asset", last.dev, 0, "ok")
    /\ ActiveIdsFor(pre, last.dev) # {}

\* C8: mark_asset_deleted returns True exactly when it found an asset with
\* the DeviceId and the status update of that asset answered, the asset then
\* being deleted; when it finds none it returns False and issues no update;
\* no asset of another device changes.
C8_MarkAssetDeleted ==
    last.op = "mark_asset_deleted" =>
        /\ last.result = "True" <=>
              /\ MarkFound
              /\ \E i \in ActiveIdsFor(pre, last.dev) :
                    /\ Answered(calls, "update_status", NoDev, i, "ok")
                    /\ assets[i].status = "deleted"
        /\ (~MarkFound /\ last.result # "raised") =>
              /\ last.result = "False"
              /\ NumCall(calls, "update_status") = 0
              /\ assets = pre
        /\ Len(assets) = Len(pre)
        /\ \A i \in 1..Len(pre) : pre[i].dev # last.dev => assets[i] = pre[i]

\* C8 witness: mark_asset_deleted returned True while another device has an
\* active asset.
C8_Witness ==
    /\ last.op = "mark_asset_deleted"
    /\ last.result = "True"
    /\ \E i \in ActiveIds(assets) : assets[i].dev \notin {last.dev, NoDev}

\* C9: when the requests answer, no asset of the removed device is active
\* after the handling of its remove event, and after a completed sweep every
\* active asset that carries a DeviceId names a device that is present and
\* physical.
C9_OrphanEventuallyDeleted ==
    /\ (last.op = "mark_asset_deleted" /\ faults = {})
          => ActiveIdsFor(assets, last.dev) = {}
    /\ (last.op = "sync_all_devices" /\ faults = {})
          => /\ ~last.raised
             /\ \A i \in ActiveIds(assets) :
                   assets[i].dev = NoDev \/ Physical(reg, assets[i].dev)

\* C9 witness: a sweep whose requests all answered deleted the asset of a
\* device that is in the registry and not physical.
C9_Witness ==
    /\ last.op = "sync_all_devices"
    /\ faults = {}
    /\ \E i \in ActiveIds(pre) :
          /\ pre[i].dev \in DeviceIds
          /\ reg[pre[i].dev].state = "nonphysical"
          /\ assets[i].status = "deleted"

\* C10: no step removes an asset record or changes its DeviceId, and the
\* only status a step writes to an asset is deleted.
C10_NeverHardDeleted ==
    [][/\ Len(assets') >= Len(assets)
       /\ \A i \in 1..Len(assets) :
             /\ assets'[i].dev = assets[i].dev
             /\ assets'[i].status # assets[i].status => assets'[i].status = "deleted"]_vars

\* C10 witness: an asset has been marked deleted and is still in the catalog.
C10_Witness ==
    /\ last.op \in {"mark_asset_deleted", "sync_all_devices"}
    /\ Len(assets) = Len(pre)
    /\ \E i \in 1..Len(pre) : pre[i].status = "active" /\ assets[i].status = "deleted"

\* C11: sync_device on a device that is non-physical or absent from the
\* registry issues no request and leaves the catalog as it was; it returns
\* None (skipped) for a non-physical device and False (failed) for an absent
\* one.
C11_SkipIssuesNoCall ==
    (last.op = "sync_device" /\ ~Physical(reg, last.dev)) =>
        /\ calls = <<>>
        /\ assets = pre
        /\ last.result = IF Present(reg, last.dev) THEN "None" ELSE "False"

\* C11 witness: sync_device ran for a non-physical device that has an active
\* asset in the catalog.
C11_Witness ==
    /\ last.op = "sync_device"
    /\ Present(reg, last.dev) /\ ~Physical(reg, last.dev)
    /\ ActiveIdsFor(pre, last.dev) # {}
    /\ last.result = "None"

\* sync_device ran for a device absent from the registry.
C11_AbsentReached ==
    /\ last.op = "sync_device"
    /\ ~Present(reg, last.dev)
    /\ last.result = "False"

\* C12: a create_ticket call whose asset lookup fails (search_asset gets a
\* non-200 answer or a ClientError), every other request answering, raises
\* nothing and returns a ticket it created or commented on.
C12_LookupFailureDoesNotBlock ==
    (last.op = "create_ticket"
        /\ faults = {Req("search_asset", last.dev, 0, "fail")}) =>
        /\ ~last.raised
        /\ last.action \in {"created", "commented"}
        /\ thist[Len(thist)].ticket_id \in OpenTicketIds(tickets)

\* C12 witness: the lookup failed for the device that has an asset, and the
\* call created a ticket.
C12_Witness ==
    /\ last.op = "create_ticket"
    /\ ActiveIdsFor(assets, last.dev) # {}
    /\ Answered(calls, "search_asset", last.dev, 0, "fail")
    /\ faults = {Req("search_asset", last.dev, 0, "fail")}
    /\ last.action = "created"
    /\ ~last.raised

\* The link request of the call that ran last got a non-2xx answer or a
\* ClientError.
LinkFailed ==
    \E k \in 1..Len(calls) :
        calls[k].call = "link_ticket_to_asset" /\ calls[k].out = "fail"

\* C13: when create_ticket has created a ticket and the link to the asset
\* fails, nothing is raised, the new ticket stays, open, and the call returns
\* "created" with the new ticket's id.
C13_FailedLinkKeepsTicket ==
    (last.op = "create_ticket" /\ LinkFailed) =>
        /\ ~last.raised
        /\ last.action = "created"
        /\ thist[Len(thist)].ticket_id = Len(tickets)
        /\ thist[Len(thist)].ticket_id \in OpenTicketIds(tickets)
        /\ tickets[Len(tickets)].subject = thist[Len(thist)].subject
        /\ tickets[Len(tickets)].asset = 0
        /\ NumCall(calls, "create_ticket") = 1

\* C13 witness: a call for the device with an asset created a ticket and its
\* link failed.
C13_Witness ==
    /\ last.op = "create_ticket"
    /\ LinkFailed
    /\ thist[Len(thist)].asset_id # 0
    /\ last.action = "created"

\* A request call of the invocation that ran last got a failed answer.
FailedReq(call) ==
    \E k \in 1..Len(calls) : calls[k].call = call /\ calls[k].out # "ok"

\* C14: a create_ticket call whose create-ticket request or add-comment
\* request fails ends with an error and no result; after a failed comment no
\* ticket is created.
C14_TicketFailurePropagates ==
    (last.op = "create_ticket"
        /\ (FailedReq("create_ticket") \/ FailedReq("add_comment"))) =>
        /\ last.raised
        /\ last.action = "none"
        /\ thist[Len(thist)].ticket_id = 0
        /\ thist[Len(thist)].after = thist[Len(thist)].prior
        /\ FailedReq("add_comment") => NumCall(calls, "create_ticket") = 0

\* C14 witness: the comment on an open ticket failed.
C14_Witness ==
    /\ last.op = "create_ticket"
    /\ FailedReq("add_comment")
    /\ thist[Len(thist)].prior # {}
    /\ last.raised

\* The create-ticket request failed.
C14_CreateFailureReached ==
    /\ last.op = "create_ticket"
    /\ FailedReq("create_ticket")
    /\ last.raised

----------------------------------------------------------------------------
\* Overlapping invocations of sync_device.  The handlers are coroutines on
\* one event loop: an invocation runs alone from one await to the next, and
\* at each await of a request another invocation can run.  A step below is
\* one such stretch together with the remote system's answer to the request
\* it ends with.

Procs == {1, 2}
Peer(p) == 3 - p

IdleProc ==
    [pc |-> "idle", dev |-> NoDev, attrs |-> NoAttrs, found |-> 0,
     result |-> "none", raced |-> FALSE, clean |-> TRUE]

InitSyncRace ==
    /\ reg \in [DeviceIds -> {RegAbsent, RegNonPhysical, [state |-> "physical", attrs |-> "a1"]}]
    /\ assets \in InitCatalogs
    /\ tickets = <<>>
    /\ last = Idle("init")
    /\ calls = <<>>
    /\ faults = {}
    /\ pre = assets
    /\ thist = <<>>
    /\ procs = [p \in Procs |-> IdleProc]
    /\ flow = <<>>
    /\ io = <<>>

RaceFrame == UNCHANGED <<reg, tickets, last, calls, faults, pre, thist, flow, io>>

\* sync_device is entered for device d (by an event, the service or a sweep):
\* lines 31-69 read the registry; a device that is absent or not physical
\* ends the invocation, for the others the search is sent.
SyncBegin(p) ==
    /\ procs[p].pc = "idle"
    /\ \E d \in DeviceIds :
         procs' = [procs EXCEPT ![p] =
                      IF ~Present(reg, d)
                      THEN [IdleProc EXCEPT !.pc = "done", !.dev = d, !.result = "False"]
                      ELSE IF ~Physical(reg, d)
                      THEN [IdleProc EXCEPT !.pc = "done", !.dev = d, !.result = "None"]
                      ELSE [IdleProc EXCEPT !.pc = "search", !.dev = d,
                                            !.attrs = reg[d].attrs]]
    /\ UNCHANGED assets
    /\ RaceFrame

\* The search of line 72 is answered from the catalog as it is now.  raced:
\* the search found nothing while the peer, for the same device, had found
\* nothing and had not yet made its create call.
SyncSearch(p) ==
    /\ procs[p].pc = "search"
    /\ \E f \in Plans(Keys("search_asset", {procs[p].dev}, {0}), MaxFaults) :
         \E s \in {search_asset(assets, <<>>, f, procs[p].dev)} :
            procs' = [procs EXCEPT ![p] =
                         IF s.exc THEN [@ EXCEPT !.pc = "done", !.result = "raised",
                                                 !.clean = FALSE]
                         ELSE IF s.ret # 0
                         THEN [@ EXCEPT !.pc = "update", !.found = s.ret,
                                        !.clean = (f = {})]
                         ELSE [@ EXCEPT !.pc = "create", !.clean = (f = {}),
                                        !.raced = /\ procs[Peer(p)].pc = "create"
                                                  /\ procs[Peer(p)].dev = procs[p].dev]]
    /\ UNCHANGED assets
    /\ RaceFrame

\* The create branch, lines 94-112.
SyncCreate(p) ==
    /\ procs[p].pc = "create"
    /\ \E f \in Plans(Keys("create_asset", {procs[p].dev}, {0}), MaxFaults) :
         \E c \in {CreateCall(assets, <<>>, f, procs[p].dev, procs[p].attrs)} :
            /\ Len(c.assets) <= MaxAssets
            /\ assets' = c.assets
            /\ procs' = [procs EXCEPT ![p].pc = "done", ![p].result = c.result,
                                      ![p].clean = (@ /\ f = {})]
    /\ RaceFrame

\* The update branch, lines 74-92.
SyncUpdate(p) ==
    /\ procs[p].pc = "update"
    /\ \E f \in Plans(Keys("update_attrs", {NoDev}, {procs[p].found}), MaxFaults) :
         \E u \in {update_asset_attrs(assets, <<>>, f, procs[p].found, procs[p].attrs)} :
            /\ assets' = u.assets
            /\ procs' = [procs EXCEPT ![p].pc = "done",
                                      ![p].result = IF u.exc THEN "raised"
                                                    ELSE IF u.ret THEN "True" ELSE "False",
                                      ![p].clean = (@ /\ f = {})]
    /\ RaceFrame

\* Both invocations have returned; their callers go on.
SyncReturn ==
    /\ \A p \in Procs : procs[p].pc = "done"
    /\ procs' = [p \in Procs |-> IdleProc]
    /\ UNCHANGED assets
    /\ RaceFrame

NextSyncRace ==
    \/ \E p \in Procs : SyncBegin(p)
    \/ \E p \in Procs : SyncSearch(p)
    \/ \E p \in Procs : SyncCreate(p)
    \/ \E p \in Procs : SyncUpdate(p)
    \/ SyncReturn

SpecSyncRace == InitSyncRace /\ [][NextSyncRace]_vars

\* Two invocations for one device have returned, each having found no asset
\* before the other made its create call, with every request answered.
Overlapped(p) ==
    /\ procs[p].pc = "done" /\ procs[Peer(p)].pc = "done"
    /\ procs[p].dev = procs[Peer(p)].dev
    /\ procs[p].raced
    /\ procs[p].clean /\ procs[Peer(p)].clean

\* C15 (as claimed): two overlapping sync_device invocations for a physical
\* device that both search before either creates leave two active assets
\* with the device's DeviceId.
C15_OverlapMakesDuplicate ==
    \A p \in Procs :
        Overlapped(p) => Cardinality(ActiveIdsFor(assets, procs[p].dev)) >= 2

\* What the overlap does instead: whatever the interleaving, the catalog
\* keeps at most one active asset for each DeviceId.
SyncRaceUnique == Unique(assets)

\* The overlap of C15 happens: both invocations went to the create branch.
SyncRaceReached == \E p \in Procs : Overlapped(p) /\ procs[p].result = "raised"

----------------------------------------------------------------------------
\* Overlapping create_ticket service calls, stepped like the invocations of
\* sync_device above: one step for each request of handle_create_ticket.

IdleCall ==
    [pc |-> "idle", dev |-> NoDev, subject |-> "none", aid |-> 0, tid |-> 0,
     action |-> "none", raised |-> FALSE, raced |-> FALSE, clean |-> TRUE]

InitTicketRace ==
    /\ reg = [d \in DeviceIds |-> [state |-> "physical", attrs |-> "a1"]]
    /\ assets = SyncedCatalog
    /\ tickets = <<>>
    /\ last = Idle("init")
    /\ calls = <<>>
    /\ faults = {}
    /\ pre = assets
    /\ thist = <<>>
    /\ procs = [p \in Procs |-> IdleCall]
    /\ flow = <<>>
    /\ io = <<>>

TicketFrame == UNCHANGED <<reg, assets, last, calls, faults, pre, thist, flow, io>>

Failed(c) == [c EXCEPT !.pc = "done", !.raised = TRUE, !.clean = FALSE]

\* The service is called: lines 62-102 read the call data and the
\* registries, then the asset lookup is sent.
TicketBegin(p) ==
    /\ procs[p].pc = "idle"
    /\ \E d \in DeviceIds, subj \in Subjects :
         procs' = [procs EXCEPT ![p] = [IdleCall EXCEPT !.pc = "lookup", !.dev = d,
                                                       !.subject = subj]]
    /\ UNCHANGED tickets
    /\ TicketFrame

\* The asset lookup of line 107 is answered.
TicketLookup(p) ==
    /\ procs[p].pc = "lookup"
    /\ \E f \in Plans(Keys("search_asset", {procs[p].dev}, {0}), MaxFaults) :
         \E s \in {search_asset(assets, <<>>, f, procs[p].dev)} :
            procs' = [procs EXCEPT ![p] =
                         IF s.exc THEN Failed(@)
                         ELSE [@ EXCEPT !.aid = s.ret, !.clean = (f = {}),
                                        !.pc = IF s.ret # 0 THEN "dedup" ELSE "create"]]
    /\ UNCHANGED tickets
    /\ TicketFrame

\* The open-ticket search of line 120 is answered from the queue as it is
\* now.  raced: it found nothing while the peer, for the same device and
\* subject, had also searched, found nothing and not yet created.
TicketDedup(p) ==
    /\ procs[p].pc = "dedup"
    /\ \E f \in Plans({Req("search_tickets_for_asset", procs[p].dev, 0, "fail")}, MaxFaults) :
         \E e \in {search_tickets_for_asset(tickets, <<>>, f, procs[p].dev,
                                             procs[p].aid, procs[p].subject)} :
            procs' = [procs EXCEPT ![p] =
                         IF e.exc THEN Failed(@)
                         ELSE IF e.ret # <<>>
                         THEN [@ EXCEPT !.pc = "comment", !.tid = e.ret[1]]
                         ELSE [@ EXCEPT !.pc = "create",
                                        !.raced = /\ procs[Peer(p)].pc = "create"
                                                  /\ procs[Peer(p)].aid # 0
                                                  /\ procs[Peer(p)].dev = procs[p].dev
                                                  /\ procs[Peer(p)].subject = procs[p].subject]]
    /\ UNCHANGED tickets
    /\ TicketFrame

\* The comment of line 125.
TicketComment(p) ==
    /\ procs[p].pc = "comment"
    /\ \E f \in Plans({Req("add_comment", procs[p].dev, 0, "fail")}, MaxFaults) :
         \E c \in {add_comment(tickets, <<>>, f, procs[p].dev, procs[p].tid)} :
            /\ tickets' = c.tickets
            /\ procs' = [procs EXCEPT ![p] =
                             IF c.exc THEN [Failed(@) EXCEPT !.tid = 0]
                             ELSE [@ EXCEPT !.pc = "done", !.action = "commented"]]
    /\ TicketFrame

\* The create of lines 129-132; with an asset the link follows.
TicketCreate(p) ==
    /\ procs[p].pc = "create"
    /\ \E f \in Plans({Req("create_ticket", procs[p].dev, 0, "fail")}, MaxFaults) :
         \E c \in {create_ticket(tickets, <<>>, f, procs[p].dev, procs[p].subject)} :
            /\ tickets' = c.tickets
            /\ procs' = [procs EXCEPT ![p] =
                             IF c.exc THEN Failed(@)
                             ELSE IF @.aid # 0 THEN [@ EXCEPT !.pc = "link", !.tid = c.ret]
                             ELSE [@ EXCEPT !.pc = "done", !.tid = c.ret,
                                            !.action = "created"]]
    /\ TicketFrame

\* The link of line 137.
TicketLink(p) ==
    /\ procs[p].pc = "link"
    /\ \E f \in Plans(Keys("link_ticket_to_asset", {procs[p].dev}, {0}), MaxFaults) :
         \E l \in {link_ticket_to_asset(tickets, <<>>, f, procs[p].dev,
                                         procs[p].tid, procs[p].aid)} :
            /\ tickets' = l.tickets
            /\ procs' = [procs EXCEPT ![p] =
                             IF l.exc THEN [Failed(@) EXCEPT !.tid = 0]
                             ELSE [@ EXCEPT !.pc = "done", !.action = "created",
                                            !.clean = (@ /\ f = {})]]
    /\ TicketFrame

NextTicketRace ==
    \/ \E p \in Procs : TicketBegin(p)
    \/ \E p \in Procs : TicketLookup(p)
    \/ \E p \in Procs : TicketDedup(p)
    \/ \E p \in Procs : TicketComment(p)
    \/ \E p \in Procs : TicketCreate(p)
    \/ \E p \in Procs : TicketLink(p)

SpecTicketRace == InitTicketRace /\ [][NextTicketRace]_vars

\* Two calls for one device and subject have returned, each having searched
\* the open tickets before the other created, with every request answered.
CallsOverlapped(p) ==
    /\ procs[p].pc = "done" /\ procs[Peer(p)].pc = "done"
    /\ procs[p].dev = procs[Peer(p)].dev
    /\ procs[p].subject = procs[Peer(p)].subject
    /\ procs[p].raced
    /\ procs[p].clean /\ procs[Peer(p)].clean

\* C16: two overlapping create_ticket calls for one (device, subject) that
\* both finish their open-ticket search before either creates both return
\* "created", with two tickets, and leave two open tickets for the pair.
C16_OverlapMakesTwoTickets ==
    \A p \in Procs :
        CallsOverlapped(p) =>
            /\ procs[p].action = "created" /\ procs[Peer(p)].action = "created"
            /\ procs[p].tid # procs[Peer(p)].tid
            /\ {procs[p].tid, procs[Peer(p)].tid} \subseteq
                    OpenFor(tickets, procs[p].dev, procs[p].subject)

\* C16 witness: the overlap has happened and the queue holds two open
\* tickets for the device and subject.
C16_Witness ==
    \E p \in Procs :
        /\ CallsOverlapped(p)
        /\ Cardinality(OpenFor(tickets, procs[p].dev, procs[p].subject)) = 2

----------------------------------------------------------------------------
\* Endpoint validation (validators.py).  A URL is given as urlparse reads it:
\* its scheme and its hostname, the hostname being a dotted name (its
\* labels), an IPv4 literal (4 octets), an IPv6 literal (8 groups of 16 bits)
\* or missing.

NoHost == [kind |-> "none"]
Name(labels) == [kind |-> "name", labels |-> labels]
Ip4(o) == [kind |-> "ip4", o |-> o]
Ip6(g) == [kind |-> "ip6", g |-> g]

\* str.lower on the labels that occur.
LowerLabel(l) ==
    CASE l = "LOCALHOST" -> "localhost"
      [] l = "LOCAL" -> "local"
      [] l = "Internal" -> "internal"
      [] l = "Foo" -> "foo"
      [] OTHER -> l

Lower(h) ==
    IF h.kind = "name"
    THEN Name([i \in 1..Len(h.labels) |-> LowerLabel(h.labels[i])])
    ELSE h

BLOCKED_IP4_NETWORKS ==
    {[base |-> <<10, 0, 0, 0>>, len |-> 8],
     [base |-> <<172, 16, 0, 0>>, len |-> 12],
     [base |-> <<192, 168, 0, 0>>, len |-> 16],
     [base |-> <<127, 0, 0, 0>>, len |-> 8],
     [base |-> <<169, 254, 0, 0>>, len |-> 16]}

BLOCKED_IP6_NETWORKS ==
    {[base |-> <<0, 0, 0, 0, 0, 0, 0, 1>>, len |-> 128],
     [base |-> <<64512, 0, 0, 0, 0, 0, 0, 0>>, len |-> 7],
     [base |-> <<65152, 0, 0, 0, 0, 0, 0, 0>>, len |-> 10]}

BLOCKED_HOSTNAMES ==
    {<<"localhost">>, <<"localhost", "localdomain">>,
     <<"metadata", "google", "internal">>, <<"metadata", "internal">>}

\* The three patterns, matched against the lowered hostname: the metadata
\* address, and a name that ends with ".internal" or ".local".
MatchesBlockedPattern(h) ==
    \/ h.kind = "ip4" /\ h.o = <<169, 254, 169, 254>>
    \/ /\ h.kind = "name"
       /\ Len(h.labels) >= 2
       /\ h.labels[Len(h.labels)] \in {"internal", "local"}

\* "ip in network": the leading len bits of the address are those of the
\* network; w is the width of a group of the address.
InNetwork(addr, net, w) ==
    \A i \in 1..Len(addr) :
        IF i * w <= net.len THEN addr[i] = net.base[i]
        ELSE IF (i - 1) * w < net.len
        THEN addr[i] \div (2 ^ (i * w - net.len)) = net.base[i] \div (2 ^ (i * w - net.len))
        ELSE TRUE

InBlockedNetwork(h) ==
    \/ h.kind = "ip4" /\ \E n \in BLOCKED_IP4_NETWORKS : InNetwork(h.o, n, 8)
    \/ h.kind = "ip6" /\ \E n \in BLOCKED_IP6_NETWORKS : InNetwork(h.g, n, 16)

EmptyUrl == [scheme |-> "", host |-> NoHost]

\* validate_rt_url without the pattern loop of lines 82-85.
validate_rt_url_NoPatterns(url, allow_http) ==
    IF url = EmptyUrl THEN "InvalidURL"
    ELSE IF ~allow_http /\ url.scheme # "https" THEN "InvalidURL"
    ELSE IF url.scheme \notin {"http", "https"} THEN "InvalidURL"
    ELSE IF url.host = NoHost THEN "InvalidURL"
    ELSE IF Lower(url.host).kind = "name"
            /\ Lower(url.host).labels \in BLOCKED_HOSTNAMES THEN "InvalidURL"
    ELSE IF InBlockedNetwork(url.host) THEN "InvalidURL"
    ELSE "ok"

\* The checks of validate_rt_url with the IP ranges looked at before the
\* hostname patterns.
InvalidURLReason_RangesFirst(url, allow_http) ==
    IF url = EmptyUrl THEN "URL cannot be empty"
    ELSE IF ~allow_http /\ url.scheme # "https"
    THEN "Only HTTPS URLs are allowed for security"
    ELSE IF url.scheme \notin {"http", "https"} THEN "Invalid URL scheme"
    ELSE IF url.host = NoHost THEN "URL must include a hostname"
    ELSE IF Lower(url.host).kind = "name"
            /\ Lower(url.host).labels \in BLOCKED_HOSTNAMES THEN "Blocked hostname"
    ELSE IF InBlockedNetwork(url.host) THEN "Blocked IP range"
    ELSE IF MatchesBlockedPattern(Lower(url.host)) THEN "Blocked hostname pattern"
    ELSE "none"

\* The checks of validate_rt_url in the order of its statements: the message
\* of the InvalidURL that is raised (without the value it quotes), "none"
\* when no check fails.
InvalidURLReason(url, allow_http) ==
    IF url = EmptyUrl THEN "URL cannot be empty"
    ELSE IF ~allow_http /\ url.scheme # "https"
    THEN "Only HTTPS URLs are allowed for security"
    ELSE IF url.scheme \notin {"http", "https"} THEN "Invalid URL scheme"
    ELSE IF url.host = NoHost THEN "URL must include a hostname"
    ELSE IF Lower(url.host).kind = "name"
            /\ Lower(url.host).labels \in BLOCKED_HOSTNAMES THEN "Blocked hostname"
    ELSE IF MatchesBlockedPattern(Lower(url.host)) THEN "Blocked hostname pattern"
    ELSE IF InBlockedNetwork(url.host) THEN "Blocked IP range"
    ELSE "none"

\* validate_rt_url: "ok" when the URL is returned, "InvalidURL" when it
\* raises.
validate_rt_url(url, allow_http) ==
    IF InvalidURLReason(url, allow_http) = "none" THEN "ok" ELSE "InvalidURL"

\* What validate_rt_url returns: "return url".
NothingReturned == [returned |-> FALSE]
Returned(url, allow_http) ==
    IF validate_rt_url(url, allow_http) = "ok" THEN url ELSE NothingReturned

\* The URLs tried: names in and around the blocked lists, addresses on both
\* sides of the edge of every blocked range, and the other schemes.
Schemes == {"https", "http", "ftp"}

NameHosts ==
    {Name(<<"localhost">>), Name(<<"LOCALHOST">>), Name(<<"localhost", "localdomain">>),
     Name(<<"metadata", "google", "internal">>), Name(<<"metadata", "internal">>),
     Name(<<"foo", "internal">>), Name(<<"Foo", "Internal">>), Name(<<"printer", "local">>),
     Name(<<"printer", "LOCAL">>), Name(<<"internal">>), Name(<<"local">>),
     Name(<<"rt", "example", "com">>), Name(<<"internal", "example", "com">>),
     Name(<<"localhost", "example", "com">>)}

Ip4Hosts ==
    {Ip4(<<a, b, 0, 1>>) : a \in {8, 9, 10, 11, 126, 127, 128, 169, 172, 192},
                           b \in {0, 15, 16, 31, 32, 167, 168, 169, 253, 254, 255}}
        \cup {Ip4(<<169, 254, 169, 254>>), Ip4(<<10, 0, 0, 5>>)}

Ip6Hosts ==
    {Ip6(<<g, 0, 0, 0, 0, 0, 0, l>>) :
        g \in {0, 8193, 64511, 64512, 65023, 65024, 65151, 65152, 65215, 65216},
        l \in {1, 2}}

Hosts == NameHosts \cup Ip4Hosts \cup Ip6Hosts \cup {NoHost}

Urls == [scheme : Schemes, host : Hosts] \cup {EmptyUrl}

RtExampleCom == [scheme |-> "https", host |-> Name(<<"rt", "example", "com">>)]

InitValidate ==
    /\ reg = [d \in DeviceIds |-> RegAbsent]
    /\ assets = <<>>
    /\ tickets = <<>>
    /\ last = Idle("init")
    /\ calls = <<>>
    /\ faults = {}
    /\ pre = <<>>
    /\ thist = <<>>
    /\ procs = <<>>
    /\ flow = <<>>
    /\ io \in [url : Urls, allow_http : BOOLEAN, res : {"none"},
                reason : {"none"}, ret : {NothingReturned}]

\* validate_rt_url(url, allow_http) is called.
Validate ==
    /\ io.res = "none"
    /\ io' = [io EXCEPT !.res = validate_rt_url(io.url, io.allow_http),
                         !.reason = InvalidURLReason(io.url, io.allow_http),
                         !.ret = Returned(io.url, io.allow_http)]
    /\ UNCHANGED <<reg, assets, tickets, last, calls, faults, pre, thist, procs, flow>>

NextValidate == Validate

SpecValidate == InitValidate /\ [][NextValidate]_vars

\* The blocked destinations as the lists name them: the four hostnames, the
\* names under .internal and .local, the metadata address, and the ranges
\* 10/8, 172.16/12, 192.168/16, 127/8, 169.254/16, ::1, fc00::/7, fe80::/10
\* written as intervals.
BlockedDestination(h) ==
    \/ /\ h.kind = "name"
       /\ \/ Lower(h).labels \in {<<"localhost">>, <<"localhost", "localdomain">>,
                                   <<"metadata", "google", "internal">>,
                                   <<"metadata", "internal">>}
          \/ /\ Len(h.labels) >= 2
             /\ Lower(h).labels[Len(h.labels)] \in {"internal", "local"}
    \/ /\ h.kind = "ip4"
       /\ \/ h.o[1] = 10
          \/ h.o[1] = 172 /\ h.o[2] \in 16..31
          \/ h.o[1] = 192 /\ h.o[2] = 168
          \/ h.o[1] = 127
          \/ h.o[1] = 169 /\ h.o[2] = 254
    \/ /\ h.kind = "ip6"
       /\ \/ h.g = <<0, 0, 0, 0, 0, 0, 0, 1>>
          \/ h.g[1] \in 64512..65023
          \/ h.g[1] \in 65152..65215

\* C18: validate_rt_url rejects every URL whose host is a blocked hostname,
\* matches a blocked pattern or is an address inside a blocked range, with
\* allow_http false or true; it rejects every http:// URL when allow_http is
\* false; it accepts https://rt.example.com.
C18_ValidatorRejectsBlocked ==
    io.res # "none" =>
        /\ (io.url # EmptyUrl /\ io.url.host # NoHost /\ BlockedDestination(io.url.host))
              => io.res = "InvalidURL"
        /\ (io.url # EmptyUrl /\ io.url.scheme = "http" /\ ~io.allow_http)
              => io.res = "InvalidURL"
        /\ io.url = RtExampleCom => io.res = "ok"

\* C18 witness: with allow_http true, an http URL of a name under .internal
\* has been rejected.
C18_Witness ==
    /\ io.res = "InvalidURL"
    /\ io.allow_http
    /\ io.url = [scheme |-> "http", host |-> Name(<<"foo", "internal">>)]

\* https://rt.example.com has been accepted.
C18_AcceptReached == io.url = RtExampleCom /\ io.res = "ok"

\* A blocked address has been rejected with allow_http true.
C18_RangeReached ==
    /\ io.res = "InvalidURL" /\ io.allow_http
    /\ io.url = [scheme |-> "https", host |-> Ip4(<<172, 31, 0, 1>>)]

\* The checks in the order C27 gives, each with the messages it raises.
CheckOrder == <<"empty", "scheme", "host", "denylist", "pattern", "range">>

CheckMessages(check) ==
    CASE check = "empty" -> {"URL cannot be empty"}
      [] check = "scheme" -> {"Only HTTPS URLs are allowed for security", "Invalid URL scheme"}
      [] check = "host" -> {"URL must include a hostname"}
      [] check = "denylist" -> {"Blocked hostname"}
      [] check = "pattern" -> {"Blocked hostname pattern"}
      [] check = "range" -> {"Blocked IP range"}

\* Each check taken alone: does the URL fail it?
Fails(check, url, allow_http) ==
    CASE check = "empty" -> url = EmptyUrl
      [] check = "scheme" -> url.scheme \notin (IF allow_http THEN {"http", "https"}
                                                ELSE {"https"})
      [] check = "host" -> url.host = NoHost
      [] check = "denylist" ->
            /\ url.host.kind = "name"
            /\ Lower(url.host).labels \in
                  {<<"localhost">>, <<"localhost", "localdomain">>,
                   <<"metadata", "google", "internal">>, <<"metadata", "internal">>}
      [] check = "pattern" ->
            \/ url.host = Ip4(<<169, 254, 169, 254>>)
            \/ /\ url.host.kind = "name"
               /\ Len(url.host.labels) >= 2
               /\ Lower(url.host).labels[Len(url.host.labels)] \in {"internal", "local"}
      [] check = "range" ->
            url.host.kind \in {"ip4", "ip6"} /\ BlockedDestination(url.host)

FailedChecks(url, allow_http) ==
    {k \in 1..Len(CheckOrder) : Fails(CheckOrder[k], url, allow_http)}

\* C27: validate_rt_url returns the URL it was given or raises InvalidURL
\* with a reason; it returns exactly when no check fails, and the reason is
\* that of the first failing check in the order empty, scheme, host,
\* denylist, pattern, range.
C27_FirstFailingCheck ==
    io.res # "none" =>
        LET failed == FailedChecks(io.url, io.allow_http)
        IN  IF failed = {}
            THEN io.res = "ok" /\ io.ret = io.url /\ io.reason = "none"
            ELSE /\ io.res = "InvalidURL"
                 /\ io.ret = NothingReturned
                 /\ io.reason \in CheckMessages(CheckOrder[Min(failed)])

\* C27 witness: http://localhost with allow_http false fails the scheme
\* check, the denylist check and no other, and the scheme is the reason.
C27_Witness ==
    /\ io.url = [scheme |-> "http", host |-> Name(<<"localhost">>)]
    /\ ~io.allow_http
    /\ FailedChecks(io.url, io.allow_http) = {2, 4}
    /\ io.res = "InvalidURL"
    /\ io.reason = "Only HTTPS URLs are allowed for security"

\* 169.254.169.254 fails the pattern check and the range check, and the
\* pattern is the reason.
C27_MetadataReached ==
    /\ io.url = [scheme |-> "https", host |-> Ip4(<<169, 254, 169, 254>>)]
    /\ FailedChecks(io.url, io.allow_http) = {5, 6}
    /\ io.reason = "Blocked hostname pattern"

\* A URL has been returned as it was given.
C27_ReturnedReached == io.res = "ok" /\ io.ret = io.url /\ io.url # RtExampleCom

----------------------------------------------------------------------------
\* Configuration: the user step of the config flow, the setup and unloading
\* of an entry, the options flow, and the requests of a loaded entry.  An
\* entry is known by its URL.  validated, clients and probed record the URLs
\* validate_rt_url has returned, those an RTClient was constructed for and
\* those a request was sent to.

FlowUrls ==
    {RtExampleCom,
     [scheme |-> "https", host |-> Name(<<"rt", "example", "org">>)],
     [scheme |-> "http", host |-> Name(<<"rt", "example", "com">>)],
     [scheme |-> "https", host |-> Name(<<"localhost">>)],
     [scheme |-> "https", host |-> Name(<<"foo", "internal">>)],
     [scheme |-> "https", host |-> Ip4(<<10, 0, 0, 5>>)],
     EmptyUrl}

Catalogs == {"c1", "c2"}

\* What the remote end does with the GET of the probe: a response with a
\* status, an aiohttp ClientError, or an error that is not a ClientError
\* (asyncio.TimeoutError).
Status(code) == [kind |-> "status", code |-> code]
Failure(name) == [kind |-> "error", name |-> name]
NoResponse == [kind |-> "none"]
Responses ==
    {Status(c) : c \in {200, 201, 204, 302, 400, 401, 403, 404, 500, 503}}
        \cup {Failure("ClientError"), Failure("TimeoutError")}

\* RTClient.test_connection: "True" when it returns, else the exception that
\* leaves it.
test_connection(resp) ==
    IF resp.kind = "error"
    THEN IF resp.name = "ClientError" THEN "CannotConnect" ELSE resp.name
    ELSE IF resp.code = 401 THEN "InvalidAuth"
    ELSE IF resp.code = 403 THEN "InvalidAuth"
    ELSE IF resp.code # 200 THEN "RTAPIError"
    ELSE "True"

\* The except clauses of async_step_user: the error shown with the form.
ErrorKey(exc) ==
    CASE exc = "InvalidURL" -> "invalid_url"
      [] exc = "CannotConnect" -> "cannot_connect"
      [] exc = "InvalidAuth" -> "invalid_auth"
      [] exc = "RTAPIError" -> "api_error"
      [] OTHER -> "unknown"

NoFlow ==
    [entries |-> {}, loaded |-> {}, catalog |-> "c1", error |-> "none",
     validated |-> {}, clients |-> {}, probed |-> {},
     response |-> NoResponse, probe |-> "none"]

\* async_step_user constructing and probing the client before it validates.
async_step_user_ValidateLast(fl, url, resp) ==
    LET probe  == test_connection(resp)
        probed == [fl EXCEPT !.clients = @ \cup {url}, !.probed = @ \cup {url},
                             !.response = resp, !.probe = probe]
    IN  IF probe # "True" THEN [probed EXCEPT !.error = ErrorKey(probe)]
        ELSE IF validate_rt_url(url, FALSE) # "ok"
        THEN [probed EXCEPT !.error = ErrorKey("InvalidURL")]
        ELSE [probed EXCEPT !.validated = @ \cup {url}, !.entries = @ \cup {url},
                            !.error = "none"]

\* async_step_user with user input: validate, construct the client, probe
\* (the remote end answering resp), and create the entry when nothing was
\* raised.
async_step_user(fl, url, resp) ==
    IF validate_rt_url(url, FALSE) # "ok"
    THEN [fl EXCEPT !.error = ErrorKey("InvalidURL"),
                    !.response = NoResponse, !.probe = "none"]
    ELSE LET probe == test_connection(resp)
             made  == [fl EXCEPT !.validated = @ \cup {url}, !.clients = @ \cup {url},
                                 !.probed = @ \cup {url},
                                 !.response = resp, !.probe = probe]
         IN  IF probe # "True" THEN [made EXCEPT !.error = ErrorKey(probe)]
             ELSE [made EXCEPT !.entries = @ \cup {url}, !.error = "none"]

InitFlow ==
    /\ reg = [d \in DeviceIds |-> RegAbsent]
    /\ assets = <<>>
    /\ tickets = <<>>
    /\ last = Idle("init")
    /\ calls = <<>>
    /\ faults = {}
    /\ pre = <<>>
    /\ thist = <<>>
    /\ procs = <<>>
    /\ flow = NoFlow
    /\ io = <<>>

FlowFrame == UNCHANGED <<reg, assets, tickets, last, calls, faults, pre, thist, procs, io>>

AsyncStepUser ==
    /\ \E url \in FlowUrls, resp \in Responses :
         flow' = async_step_user(flow, url, resp)
    /\ FlowFrame

\* async_setup_entry: the client is constructed for the URL of the entry.
AsyncSetupEntry ==
    /\ \E e \in flow.entries \ flow.loaded :
         flow' = [flow EXCEPT !.loaded = @ \cup {e}, !.clients = @ \cup {e}]
    /\ FlowFrame

AsyncUnloadEntry ==
    /\ \E e \in flow.loaded : flow' = [flow EXCEPT !.loaded = @ \ {e}]
    /\ FlowFrame

\* The options flow rewrites ha_url, address, catalog and sync_interval of
\* the entry and keeps its URL and token.
OptionsStepInit ==
    /\ flow.entries # {}
    /\ \E c \in Catalogs : flow' = [flow EXCEPT !.catalog = c]
    /\ FlowFrame

\* A service call, an event or the timer makes the client of a loaded entry
\* send a request.
ClientRequest ==
    /\ \E e \in flow.loaded : flow' = [flow EXCEPT !.probed = @ \cup {e}]
    /\ FlowFrame

NextFlow ==
    \/ AsyncStepUser
    \/ AsyncSetupEntry
    \/ AsyncUnloadEntry
    \/ OptionsStepInit
    \/ ClientRequest

SpecFlow == InitFlow /\ [][NextFlow]_vars

\* C17: an RTClient is constructed, and a request sent, only for a URL that
\* validate_rt_url has returned before, in the user step, at every setup of
\* an entry and after a change of the options; a URL that fails validation
\* is never probed and never stored.
C17_ValidatedBeforeClient ==
    /\ flow.clients \subseteq flow.validated
    /\ flow.probed \subseteq flow.validated
    /\ flow.entries \subseteq flow.validated
    /\ \A url \in FlowUrls :
          validate_rt_url(url, FALSE) # "ok" =>
              url \notin flow.clients \cup flow.probed \cup flow.entries

\* C17 witness: a URL was refused, and an entry made before, with options
\* changed since, is set up and its client has sent a request.
C17_Witness ==
    /\ flow.error = "invalid_url"
    /\ flow.catalog = "c2"
    /\ \E e \in flow.loaded : e \in flow.probed

\* C21: test_connection returns on status 200, raises InvalidAuth on 401 and
\* on 403, and raises CannotConnect on every other status and on every
\* transport failure.
C21_ProbeMapping ==
    flow.probe # "none" =>
        IF flow.response = Status(200) THEN flow.probe = "True"
        ELSE IF flow.response \in {Status(401), Status(403)} THEN flow.probe = "InvalidAuth"
        ELSE flow.probe = "CannotConnect"

\* The part of the mapping that test_connection has: 200, 401, 403 and
\* ClientError as C21 says, RTAPIError on every other status.
ProbeMappingOfSource ==
    flow.probe # "none" =>
        /\ flow.response = Status(200) => flow.probe = "True" /\ flow.error = "none"
        /\ flow.response \in {Status(401), Status(403)} =>
              flow.probe = "InvalidAuth" /\ flow.error = "invalid_auth"
        /\ flow.response = Failure("ClientError") =>
              flow.probe = "CannotConnect" /\ flow.error = "cannot_connect"
        /\ (flow.response.kind = "status" /\ flow.response.code \notin {200, 401, 403}) =>
              flow.probe = "RTAPIError" /\ flow.error = "api_error"

\* The probe was answered 500 and the form shows api_error.
ProbeServerErrorReached ==
    flow.response = Status(500) /\ flow.probe = "RTAPIError" /\ flow.error = "api_error"

----------------------------------------------------------------------------
\* Query building (rt_client.py).  A string is the sequence of its
\* characters; BS is the backslash, QT the double quote, "a" any other
\* character.

BS == "\\"
QT == "\""
Alphabet == {BS, QT, "a"}

Strs == UNION {[1..n -> Alphabet] : n \in 0..MaxStrLen}

\* str.replace(ch, rep) for a one-character ch.
RECURSIVE Replace(_, _, _)
Replace(s, ch, rep) ==
    IF s = <<>> THEN <<>>
    ELSE (IF Head(s) = ch THEN rep ELSE <<Head(s)>>) \o Replace(Tail(s), ch, rep)

\* _escape_ticketsql with the two replacements in the other order.
escape_ticketsql_QuotesFirst(value) ==
    Replace(Replace(value, QT, <<BS, QT>>), BS, <<BS, BS>>)

\* _escape_ticketsql without the replacement of backslashes.
escape_ticketsql_QuotesOnly(value) ==
    Replace(value, QT, <<BS, QT>>)

\* _escape_ticketsql: backslashes first, then quotes.
escape_ticketsql(value) ==
    Replace(Replace(value, BS, <<BS, BS>>), QT, <<BS, QT>>)

\* The query of search_asset; the text between the operands is one element
\* each.
AssetQuery(catalog, device_id) ==
    <<"Catalog=", QT>> \o escape_ticketsql(catalog)
        \o <<QT, " AND CF.{DeviceId}=", QT>> \o escape_ticketsql(device_id) \o <<QT>>

\* The query of search_tickets.
TicketQuery(queue, device_id) ==
    <<"Queue=", QT>> \o escape_ticketsql(queue)
        \o <<QT, " AND (Status=\"new\" OR Status=\"open\" OR Status=\"stalled\") AND CF.{DeviceId}=", QT>>
        \o escape_ticketsql(device_id) \o <<QT>>

\* Reading a quoted literal of the query grammar from position i, just after
\* its opening quote: a backslash takes the next character as it is, a bare
\* quote closes.  end is the position of the closing quote, 0 if there is
\* none.
RECURSIVE ReadLiteral(_, _, _)
ReadLiteral(q, i, acc) ==
    IF i > Len(q) THEN [end |-> 0, val |-> acc]
    ELSE IF q[i] = QT THEN [end |-> i, val |-> acc]
    ELSE IF q[i] = BS
    THEN IF i + 1 > Len(q) THEN [end |-> 0, val |-> acc]
         ELSE ReadLiteral(q, i + 2, Append(acc, q[i + 1]))
    ELSE ReadLiteral(q, i + 1, Append(acc, q[i]))

\* Reading a query of two clauses, field "literal" joiner field "literal":
\* the fields, the operands and whether the query is just that.
ReadQuery(q) ==
    LET a == ReadLiteral(q, 3, <<>>)
        b == ReadLiteral(q, a.end + 3, <<>>)
    IN  IF Len(q) < 2 \/ q[2] # QT \/ a.end = 0 \/ a.end + 2 > Len(q) \/ q[a.end + 2] # QT
        THEN [ok |-> FALSE]
        ELSE [ok |-> b.end = Len(q), first |-> q[1], a |-> a.val,
              joiner |-> q[a.end + 1], b |-> b.val]

\* Unescaping: \\ to \ and \" to ".
RECURSIVE Unescape(_)
Unescape(e) ==
    IF e = <<>> THEN <<>>
    ELSE IF Head(e) = BS /\ Len(e) >= 2 /\ e[2] \in {BS, QT}
    THEN <<e[2]>> \o Unescape(Tail(Tail(e)))
    ELSE <<Head(e)>> \o Unescape(Tail(e))

\* The operands that stand for the queue or the catalog.
FirstOperands == {<<>>, <<"a">>, <<BS>>, <<QT>>}

InitEscape ==
    /\ reg = [d \in DeviceIds |-> RegAbsent]
    /\ assets = <<>>
    /\ tickets = <<>>
    /\ last = Idle("init")
    /\ calls = <<>>
    /\ faults = {}
    /\ pre = <<>>
    /\ thist = <<>>
    /\ procs = <<>>
    /\ flow = <<>>
    /\ io \in [s : Strs, c : FirstOperands, done : {FALSE}, out : {<<>>},
                asset_query : {<<>>}, ticket_query : {<<>>}]

\* search_asset and search_tickets build their queries with c as catalog or
\* queue and s as device_id.
Escape ==
    /\ ~io.done
    /\ io' = [io EXCEPT !.done = TRUE,
                         !.out = escape_ticketsql(io.s),
                         !.asset_query = AssetQuery(io.c, io.s),
                         !.ticket_query = TicketQuery(io.c, io.s)]
    /\ UNCHANGED <<reg, assets, tickets, last, calls, faults, pre, thist, procs, flow>>

NextEscape == Escape

SpecEscape == InitEscape /\ [][NextEscape]_vars

\* The number of backslashes that stand in a row just before position i.
BackslashesBefore(e, i) ==
    LET stops == {j \in 0..(i - 1) : j = 0 \/ e[j] # BS}
    IN  i - 1 - (CHOOSE j \in stops : \A k \in stops : k <= j)

\* C19: every double quote of _escape_ticketsql(s) has an odd number of
\* backslashes in a row before it; so the literal opened before the operand
\* is closed by the quote the builder adds and by no other, and the queries
\* of search_asset and search_tickets read as the two clauses the builder
\* wrote, with the operands given.
C19_QuotesStayEscaped ==
    io.done =>
        /\ \A i \in 1..Len(io.out) :
              io.out[i] = QT => BackslashesBefore(io.out, i) % 2 = 1
        /\ ReadLiteral(<<QT>> \o io.out \o <<QT>>, 2, <<>>).end = Len(io.out) + 2
        /\ ReadQuery(io.asset_query)
              = [ok |-> TRUE, first |-> "Catalog=", a |-> io.c,
                 joiner |-> " AND CF.{DeviceId}=", b |-> io.s]
        /\ LET t == ReadQuery(io.ticket_query)
           IN  t.ok /\ t.first = "Queue=" /\ t.a = io.c /\ t.b = io.s

\* C19 witness: the queries were built for a device_id that closes the
\* literal and opens another, and a catalog that ends with a backslash.
C19_Witness ==
    /\ io.done
    /\ io.s = <<QT, "a", QT, "a">>
    /\ io.c = <<BS>>

\* C20: _escape_ticketsql returns a value for every string, and unescaping
\* the value gives the string back; so two strings with one escaped value
\* are one string.
C20_EscapeReversible ==
    io.done =>
        /\ Unescape(io.out) = io.s
        /\ Len(io.out) = Len(io.s) + Cardinality({i \in 1..Len(io.s) : io.s[i] \in {BS, QT}})
        /\ escape_ticketsql(io.c) = io.out => io.c = io.s

\* C20 witness: a string of backslashes and quotes only has been escaped.
C20_Witness ==
    /\ io.done
    /\ io.s = <<BS, QT, BS>>
    /\ io.out = <<BS, BS, BS, QT, BS, BS>>

\* The empty string has been escaped.
C20_EmptyReached == io.done /\ io.s = <<>> /\ io.out = <<>>

----------------------------------------------------------------------------
\* Further properties of the reconciliation.

\* The single sync_device invocation that ran last, for a physical device.
SyncDeviceRan == last.op = "sync_device" /\ Physical(reg, last.dev)

\* C22 (as claimed): a create or an update that the remote system answers
\* with a non-2xx status raises nothing; sync_device returns False (failed)
\* for it, and True when the update is answered 2xx.
C22_AssetFailureReturned ==
    SyncDeviceRan =>
        /\ (/\ faults = {Req("create_asset", last.dev, 0, "fail")}
            /\ ActiveIdsFor(pre, last.dev) = {})
              => last.result = "False"
        /\ (\E k \in 1..Len(calls) : calls[k].call = "update_attrs" /\ calls[k].out = "fail")
              => last.result = "False"
        /\ (\E k \in 1..Len(calls) : calls[k].call = "update_attrs" /\ calls[k].out = "ok")
              => last.result = "True"

\* The update half of C22: a refused update makes sync_device return False,
\* an answered one True, and nothing is raised.
UpdateFailureReturned ==
    (SyncDeviceRan /\ NumCall(calls, "update_attrs") = 1) =>
        \A k \in 1..Len(calls) :
            calls[k].call = "update_attrs" =>
                /\ calls[k].out = "fail" => last.result = "False"
                /\ calls[k].out = "ok" => last.result = "True"

\* A refused update has been reported as failed.
UpdateFailureReached ==
    /\ SyncDeviceRan
    /\ \E k \in 1..Len(calls) : calls[k].call = "update_attrs" /\ calls[k].out = "fail"
    /\ last.result = "False"

\* The remote system had a refusal ready for the create of a device without
\* asset, and sync_device raised without issuing the create.
CreateRaisedReached ==
    /\ SyncDeviceRan
    /\ faults = {Req("create_asset", last.dev, 0, "fail")}
    /\ ActiveIdsFor(pre, last.dev) = {}
    /\ last.result = "raised"
    /\ NumCall(calls, "create_asset") = 0

----------------------------------------------------------------------------
\* The reconciliation handlers against a remote system that holds tickets:
\* an open ticket of d1 with a comment, linked to the first asset when that
\* one carries DeviceId d1, and a closed ticket of d2.

FiledTickets(as) ==
    <<[dev |-> "d1", subject |-> "s1", status |-> "open",
       asset |-> IF Len(as) >= 1 /\ as[1].dev = "d1" THEN 1 ELSE 0, comments |-> 1],
      [dev |-> "d2", subject |-> "s2", status |-> "closed", asset |-> 0, comments |-> 0]>>

InitReconcile ==
    /\ reg \in [DeviceIds -> {RegAbsent, RegNonPhysical, [state |-> "physical", attrs |-> "a1"]}]
    /\ assets \in InitCatalogs
    /\ tickets = FiledTickets(assets)
    /\ last = Idle("init")
    /\ calls = <<>>
    /\ faults = {}
    /\ pre = assets
    /\ thist = <<>>
    /\ Parked

SpecReconcile == InitReconcile /\ [][Next]_vars

\* The requests that read or write assets.
AssetCalls ==
    {"search_asset", "create_asset", "update_attrs", "update_status",
     "list_assets", "get_asset"}

\* C23: every step of the reconciliation path (sync_device,
\* sync_all_devices with its cleanup, mark_asset_deleted) leaves the ticket
\* queue as it was, and issues requests on assets only: no ticket is
\* created, commented on, linked or closed.
C23_TicketsUntouched ==
    [][/\ tickets' = tickets
       /\ \A k \in 1..Len(calls') : calls'[k].call \in AssetCalls]_vars

\* C23 witness: a sweep has deleted the asset the open ticket is linked to,
\* and the ticket is open, linked and commented as before.
C23_Witness ==
    /\ last.op = "sync_all_devices"
    /\ last.tally.deleted >= 1
    /\ Len(pre) >= 1 /\ pre[1].status = "active" /\ assets[1].status = "deleted"
    /\ tickets = FiledTickets(pre)
    /\ tickets[1].asset = 1 /\ tickets[1].status = "open"

\* A removal event has deleted the asset the open ticket is linked to.
C23_MarkDeletedReached ==
    /\ last.op = "mark_asset_deleted" /\ last.result = "True"
    /\ assets[1].status = "deleted"
    /\ tickets[1].asset = 1 /\ tickets[1].status = "open"

----------------------------------------------------------------------------
\* Orphan cleanup.

\* A sweep ran last, every request of it answered and nothing was raised.
CleanSweep == last.op = "sync_all_devices" /\ faults = {} /\ ~last.raised

\* C24 (as claimed): after a sweep whose requests all answered, every asset
\* that was active without DeviceId is deleted, as is every asset whose
\* DeviceId names no present physical device.
C24_NoDeviceIdDeleted ==
    CleanSweep =>
        \A i \in ActiveIds(pre) :
            pre[i].dev \notin ValidDevices => assets[i].status = "deleted"

\* What cleanup_orphaned_assets does with an asset without DeviceId: it
\* fetches the detail, issues no status update and leaves the asset active.
NoDeviceIdKept ==
    last.op = "sync_all_devices" =>
        \A i \in ActiveIds(pre) :
            pre[i].dev = NoDev =>
                /\ assets[i].status = "active"
                /\ NumReq(calls, "update_status", NoDev, i) = 0

\* A sweep has fetched the detail of an asset without DeviceId and left it
\* active, while it deleted an asset of an absent device.
NoDeviceIdKeptReached ==
    /\ CleanSweep
    /\ \E i, j \in ActiveIds(pre) :
          /\ pre[i].dev = NoDev
          /\ Answered(calls, "get_asset", NoDev, i, "ok")
          /\ assets[i].status = "active"
          /\ pre[j].dev \notin ValidDevices \cup {NoDev}
          /\ assets[j].status = "deleted"

\* The sweep that ran last returned and its listing answered: the cleanup
\* went through the assets that were active.
CleanupListed ==
    /\ last.op = "sync_all_devices" /\ ~last.raised
    /\ Answered(calls, "list_assets", NoDev, 0, "ok")

\* C28: in a cleanup that returns, every listed asset gets one detail fetch,
\* whatever the fetch or the status update of another asset answered; no
\* asset gets more than one status update, an orphan whose fetch answered
\* gets one; and the deleted count is the number of status updates that
\* succeeded.
C28_EachAssetOnce ==
    CleanupListed =>
        /\ \A i \in ActiveIds(pre) :
              /\ NumReq(calls, "get_asset", NoDev, i) = 1
              /\ NumReq(calls, "update_status", NoDev, i) <= 1
              /\ (/\ pre[i].dev \notin ValidDevices \cup {NoDev}
                  /\ Answered(calls, "get_asset", NoDev, i, "ok"))
                    => NumReq(calls, "update_status", NoDev, i) = 1
        /\ last.tally.deleted =
              Cardinality({i \in ActiveIds(pre) : Answered(calls, "update_status", NoDev, i, "ok")})
        /\ \A i \in ActiveIds(pre) :
              assets[i].status = "deleted" <=> Answered(calls, "update_status", NoDev, i, "ok")

\* C28 witness: of two listed orphans the detail fetch of the first failed;
\* the second was fetched and deleted, and the count is 1.
C28_Witness ==
    /\ CleanupListed
    /\ \E i, j \in ActiveIds(pre) :
          /\ i < j
          /\ Answered(calls, "get_asset", NoDev, i, "fail")
          /\ NumReq(calls, "update_status", NoDev, i) = 0
          /\ assets[i].status = "active"
          /\ Answered(calls, "update_status", NoDev, j, "ok")
    /\ last.tally.deleted = 1

\* The status update of the first of two orphans was refused, once; the
\* second was deleted.
C28_UpdateRefusedReached ==
    /\ CleanupListed
    /\ \E i, j \in ActiveIds(pre) :
          /\ i < j
          /\ Answered(calls, "update_status", NoDev, i, "fail")
          /\ NumReq(calls, "update_status", NoDev, i) = 1
          /\ Answered(calls, "update_status", NoDev, j, "ok")
    /\ last.tally.deleted = 1

\* C29 (as claimed): at the end of a sweep whose requests all answered,
\* every present physical device has an active asset carrying its DeviceId,
\* and every active asset carrying a DeviceId names a present physical
\* device.
C29_SweepConverges ==
    CleanSweep =>
        /\ \A d \in ValidDevices : ActiveIdsFor(assets, d) # {}
        /\ \A i \in ActiveIds(assets) :
              assets[i].dev # NoDev => assets[i].dev \in ValidDevices

\* The half of C29 that holds: after such a sweep no active asset names a
\* device that is absent or non-physical, and a device that had an asset has
\* it still, with the attributes of the registry.
SweepRetiresOrphans ==
    CleanSweep =>
        /\ \A i \in ActiveIds(assets) :
              assets[i].dev # NoDev => assets[i].dev \in ValidDevices
        /\ \A d \in ValidDevices :
              \A i \in ActiveIdsFor(pre, d) :
                  assets[i].status = "active" /\ assets[i].attrs = reg[d].attrs

\* A sweep whose requests all answered has ended with a physical device
\* that has no asset: its sync was counted as failed and no create was sent.
SweepLeavesDeviceBareReached ==
    /\ CleanSweep
    /\ \E d \in ValidDevices : ActiveIdsFor(assets, d) = {}
    /\ last.tally.failed >= 1
    /\ NumCall(calls, "create_asset") = 0

\* A sweep ran last and returned its tallies.
SweepReturned == last.op = "sync_all_devices" /\ ~last.raised

\* C31: for every sweep that returns, synced + failed + skipped is the
\* number of devices of the registry, whatever the syncs returned or raised:
\* every device is counted once, a non-physical one as skipped and a
\* physical one as synced or failed.
C31_TallyConserved ==
    SweepReturned =>
        /\ last.tally.synced + last.tally.failed + last.tally.skipped
              = Len(Listed(reg))
        /\ last.tally.skipped = Cardinality(ListedDevices \ ValidDevices)
        /\ last.tally.synced + last.tally.failed = Cardinality(ValidDevices)
        /\ last.tally.synced <= NumCall(calls, "update_attrs")

\* C31 witness: of two devices one was skipped and the sync of the other
\* raised; the tallies are one skipped and one failed.
C31_Witness ==
    /\ SweepReturned
    /\ Len(Listed(reg)) = 2
    /\ \E d \in ValidDevices : Answered(calls, "search_asset", d, 0, "exc")
    /\ last.tally.skipped = 1 /\ last.tally.failed = 1 /\ last.tally.synced = 0

\* Of two devices one was synced and the update of the other was refused.
C31_ReturnedFailureReached ==
    /\ SweepReturned
    /\ \E k \in 1..Len(calls) : calls[k].call = "update_attrs" /\ calls[k].out = "fail"
    /\ last.tally.synced = 1 /\ last.tally.failed = 1 /\ last.tally.skipped = 0

----------------------------------------------------------------------------
\* Further properties of the create_ticket service.

\* In the log cs a ticket search that answered comes before request k.
SearchedBefore(cs, k) ==
    \E j \in 1..(k - 1) : cs[j].call = "search_tickets_for_asset" /\ cs[j].out = "ok"

\* C25 (as claimed): in every create_ticket call a create request comes
\* after a search for an open ticket in the same call, also when no asset
\* was resolved.
C25_SearchBeforeCreate ==
    last.op = "create_ticket" =>
        \A k \in 1..Len(calls) : calls[k].call = "create_ticket" => SearchedBefore(calls, k)

\* What handle_create_ticket does: with an asset resolved, a comment or a
\* create comes after a search that answered, a create after one that found
\* no open ticket linked to the asset; with no asset resolved no search is issued and a ticket is
\* created.
SearchOnlyWithAsset ==
    last.op = "create_ticket" =>
        LET aid == thist[Len(thist)].asset_id
        IN  IF aid # 0
            THEN /\ \A k \in 1..Len(calls) :
                       calls[k].call \in {"create_ticket", "add_comment"}
                           => SearchedBefore(calls, k)
                 /\ NumCall(calls, "create_ticket") = 1 =>
                       \A i \in thist[Len(thist)].prior : tickets[i].asset # aid
            ELSE /\ NumCall(calls, "search_tickets_for_asset") = 0
                 /\ ~last.raised => last.action = "created"

\* A call for the device without asset has created a second open ticket for
\* a subject, without a search.
CreateWithoutSearchReached ==
    /\ last.op = "create_ticket" /\ last.action = "created"
    /\ thist[Len(thist)].asset_id = 0
    /\ thist[Len(thist)].prior # {}
    /\ NumCall(calls, "search_tickets_for_asset") = 0

----------------------------------------------------------------------------
\* The sync_assets service for one device.

\* The service handled a single-device sync and responded.
ServiceSyncResponded ==
    last.op = "sync_device" /\ last.handler = "service" /\ ~last.raised

\* C26 (as claimed): the response of the single-device sync for a
\* non-physical device, which sync_device skips, does not count the device
\* as failed.
C26_SkippedNotFailed ==
    (ServiceSyncResponded /\ Present(reg, last.dev) /\ ~Physical(reg, last.dev))
        => /\ last.result = "None"
           /\ last.tally.failed = 0

\* What handle_sync_assets responds: synced 1 and failed 0 when sync_device
\* returned True, synced 0 and failed 1 when it returned False or None.
ResponseOfSource ==
    ServiceSyncResponded =>
        /\ last.tally.synced + last.tally.failed = 1
        /\ last.tally.synced = 1 <=> last.result = "True"
        /\ last.result \in {"False", "None"} => last.tally.failed = 1

\* A non-physical device has been skipped by sync_device and reported as
\* failed, with no request issued.
SkippedAsFailedReached ==
    /\ ServiceSyncResponded
    /\ reg[last.dev].state = "nonphysical"
    /\ last.result = "None"
    /\ last.tally.failed = 1 /\ last.tally.synced = 0
    /\ calls = <<>>

----------------------------------------------------------------------------
\* The cleanup of a sweep overlapped by registry events.  The cleanup is a
\* coroutine: it runs alone from one await to the next, and while it waits
\* for a request the registry can change and handle_device_registry_event
\* can run.  A step of the cleanup is one stretch between awaits together
\* with the answer to the request it ends with; the handling of an event is
\* taken whole, its requests answering while the cleanup waits.
\*
\* hit: the assets whose status update was answered while their device was
\* present and physical.  overlap: an event came while the cleanup was
\* under way.

IdleCleanup ==
    [pc |-> "idle", valid |-> {}, ids |-> <<>>, dev |-> NoDev, deleted |-> 0,
     raised |-> FALSE, hit |-> {}, overlap |-> FALSE, events |-> 0]

InitCleanupRace ==
    /\ reg \in [DeviceIds -> {RegAbsent, RegNonPhysical, [state |-> "physical", attrs |-> "a1"]}]
    /\ assets \in InitCatalogs
    /\ tickets = <<>>
    /\ last = Idle("init")
    /\ calls = <<>>
    /\ faults = {}
    /\ pre = assets
    /\ thist = <<>>
    /\ procs = IdleCleanup
    /\ flow = <<>>
    /\ io = <<>>

CleanupFrame == UNCHANGED <<tickets, last, faults, pre, thist, flow, io>>

CleanupUnderWay == procs.pc \in {"list", "fetch", "update"}

\* The cleanup goes on with the next listed asset, or ends.
NextAsset(ids) == IF Tail(ids) = <<>> THEN "done" ELSE "fetch"

\* cleanup_orphaned_assets is entered: lines 194-201 read the registry into
\* valid_device_ids, and list_assets is called.
CleanupBegin ==
    /\ procs.pc = "idle"
    /\ procs' = [procs EXCEPT !.pc = "list",
                              !.valid = {d \in DeviceIds : Physical(reg, d)}]
    /\ UNCHANGED <<reg, assets, calls>>
    /\ CleanupFrame

\* The listing of line 204 is answered from the catalog as it is now.
CleanupList ==
    /\ procs.pc = "list"
    /\ \E f \in Plans(Keys("list_assets", {NoDev}, {0}), MaxFaults) :
         \E l \in {list_assets(assets, calls, f)} :
            /\ calls' = l.calls
            /\ procs' = IF l.exc THEN [procs EXCEPT !.pc = "done", !.raised = TRUE]
                        ELSE [procs EXCEPT !.ids = l.ret,
                                           !.pc = IF l.ret = <<>> THEN "done" ELSE "fetch"]
    /\ UNCHANGED <<reg, assets>>
    /\ CleanupFrame

\* Lines 207-229 for the next listed asset: its detail is fetched, its
\* DeviceId read and looked up in valid_device_ids.
CleanupFetch ==
    /\ procs.pc = "fetch"
    /\ \E f \in Plans(Keys("get_asset", {NoDev}, {Head(procs.ids)}), MaxFaults) :
         \E g \in {get_asset(assets, calls, f, Head(procs.ids))} :
            /\ calls' = g.calls
            /\ procs' =
                 IF g.exc THEN [procs EXCEPT !.pc = "done", !.raised = TRUE]
                 ELSE IF \/ ~g.ret
                         \/ assets[Head(procs.ids)].dev = NoDev
                         \/ assets[Head(procs.ids)].dev \in procs.valid
                 THEN [procs EXCEPT !.pc = NextAsset(procs.ids), !.ids = Tail(@)]
                 ELSE [procs EXCEPT !.pc = "update", !.dev = assets[Head(procs.ids)].dev]
    /\ UNCHANGED <<reg, assets>>
    /\ CleanupFrame

\* Lines 230-237: the status update of the asset is answered.
CleanupUpdate ==
    /\ procs.pc = "update"
    /\ \E f \in Plans(Keys("update_status", {NoDev}, {Head(procs.ids)}), MaxFaults) :
         \E u \in {update_asset_status(assets, calls, f, Head(procs.ids))} :
            /\ calls' = u.calls
            /\ assets' = u.assets
            /\ procs' =
                 IF u.exc THEN [procs EXCEPT !.pc = "done", !.raised = TRUE]
                 ELSE [procs EXCEPT
                         !.pc = NextAsset(procs.ids), !.ids = Tail(@), !.dev = NoDev,
                         !.deleted = IF u.ret THEN @ + 1 ELSE @,
                         !.hit = IF u.ret /\ Physical(reg, procs.dev)
                                 THEN @ \cup {Head(procs.ids)} ELSE @]
    /\ UNCHANGED reg
    /\ CleanupFrame

\* The cleanup returns its count (line 239), or its exception leaves it.
CleanupReturn ==
    /\ procs.pc = "done"
    /\ procs' = [procs EXCEPT !.pc = "returned"]
    /\ UNCHANGED <<reg, assets, calls>>
    /\ CleanupFrame

\* The registry changes device d and handle_device_registry_event handles
\* the event, as in HandleDeviceRegistryEvent, at any moment of the cleanup.
RegistryEvent ==
    /\ procs.events < MaxEvents
    /\ \E d \in DeviceIds, rec \in RegRecs :
         LET act == IF reg[d].state = "absent" THEN "create"
                    ELSE IF rec.state = "absent" THEN "remove" ELSE "update"
             r2  == [reg EXCEPT ![d] = rec]
         IN  /\ rec # reg[d]
             /\ reg' = r2
             /\ \E res \in {handle_device_registry_event(r2, assets, calls, {},
                                                          TRUE, act, d)} :
                   /\ assets' = res.assets
                   /\ calls' = res.calls
    /\ procs' = [procs EXCEPT !.events = @ + 1,
                              !.overlap = @ \/ CleanupUnderWay]
    /\ CleanupFrame

NextCleanupRace ==
    \/ CleanupBegin
    \/ CleanupList
    \/ CleanupFetch
    \/ CleanupUpdate
    \/ CleanupReturn
    \/ RegistryEvent

SpecCleanupRace == InitCleanupRace /\ [][NextCleanupRace]_vars

\* C30 (as claimed): the cleanup never deletes an asset whose device is
\* present and physical at the moment of the status update, also when
\* devices are added and synced while the cleanup waits for a request.
C30_NoLiveAssetDeleted == procs.hit = {}

\* Without an event between the reading of the registry and the end of the
\* cleanup, no asset of a present physical device is deleted.
NoOverlapNoHit == ~procs.overlap => procs.hit = {}

\* A device was added while the cleanup waited, the event handler synced it
\* (its asset was found and updated), and the cleanup then deleted the asset.
LiveAssetDeletedReached ==
    /\ procs.pc = "returned" /\ ~procs.raised
    /\ procs.overlap
    /\ \E i \in procs.hit :
          /\ assets[i].status = "deleted"
          /\ Physical(reg, assets[i].dev)
          /\ assets[i].dev \notin procs.valid
          /\ \E k \in 1..Len(calls) :
                calls[k] = Req("update_attrs", NoDev, i, "ok")

\* ---------------------------------------------------------------------------
\* The listener of device_registry_updated.  hass.data[DOMAIN] holds the data
\* of at most one entry here: flow.loaded.  An event carries any action and
\* any device_id, or none; the handler reads the registry as it is when it
\* runs.

EventActions == {"create", "update", "remove", "other"}

InitEvents ==
    /\ reg \in [DeviceIds -> {RegAbsent, RegNonPhysical, [state |-> "physical", attrs |-> "a1"]}]
    /\ assets \in InitCatalogs
    /\ tickets = <<>>
    /\ last = Idle("init")
    /\ calls = <<>>
    /\ faults = {}
    /\ pre = assets
    /\ thist = <<>>
    /\ procs = <<>>
    /\ flow \in {[loaded |-> b] : b \in BOOLEAN}
    /\ io = <<>>

EventFrame == UNCHANGED <<tickets, thist, procs, io>>

\* async_setup_entry stores the data of the entry in hass.data[DOMAIN].
EntryDataStored ==
    /\ Quiet
    /\ ~flow.loaded
    /\ flow' = [flow EXCEPT !.loaded = TRUE]
    /\ UNCHANGED <<reg, assets, last, calls, faults, pre>>
    /\ EventFrame

\* async_unload_entry pops the data of the entry.
EntryDataPopped ==
    /\ Quiet
    /\ flow.loaded
    /\ flow' = [flow EXCEPT !.loaded = FALSE]
    /\ UNCHANGED <<reg, assets, last, calls, faults, pre>>
    /\ EventFrame

\* The requests the handler can issue for an event, each with its answers.
EventFaults(r, as, loaded, action, d) ==
    IF d = NoDev \/ ~loaded THEN {}
    ELSE IF action \in {"create", "update"} THEN SyncDeviceFaults(r, as, d)
    ELSE IF action = "remove" THEN MarkDeletedFaults(as, d)
    ELSE {}

\* An event is delivered to handle_device_registry_event.  With a create or
\* update the registry holds any record for the device, with a remove none.
DeviceRegistryUpdated ==
    /\ Quiet
    /\ \E d \in DeviceIds \cup {NoDev}, action \in EventActions, rec \in RegRecs :
         \E r2 \in {IF d = NoDev \/ action = "other" THEN reg
                    ELSE [reg EXCEPT ![d] = IF action = "remove" THEN RegAbsent ELSE rec]} :
            /\ (d = NoDev \/ action \in {"remove", "other"}) => rec = RegAbsent
            /\ reg' = r2
            /\ \E f \in Plans(EventFaults(r2, assets, flow.loaded, action, d), MaxFaults) :
                 \E res \in {handle_device_registry_event(r2, assets, <<>>, f,
                                                          flow.loaded, action, d)} :
                    /\ Live(f, res.calls)
                    /\ Len(res.assets) <= MaxAssets
                    /\ assets' = res.assets
                    /\ calls' = res.calls
                    /\ faults' = f
                    /\ last' = [Idle(res.ran) EXCEPT !.handler = "event", !.dev = d,
                                                     !.action = action,
                                                     !.result = res.result,
                                                     !.raised = res.raised]
    /\ pre' = assets
    /\ UNCHANGED flow
    /\ EventFrame

\* The handler has returned.
EventDone ==
    /\ ~Quiet
    /\ last' = Idle("idle")
    /\ calls' = <<>>
    /\ faults' = {}
    /\ pre' = assets
    /\ UNCHANGED <<reg, assets, flow>>
    /\ EventFrame

NextEvents ==
    \/ EntryDataStored
    \/ EntryDataPopped
    \/ DeviceRegistryUpdated
    \/ EventDone

SpecEvents == InitEvents /\ [][NextEvents]_vars

EventHandled == last.handler = "event"

\* The requests of the log are asset requests of the kinds in kinds, the
\* searches for device d and the updates for active assets of d.
RequestsFor(cs, kinds, d) ==
    \A k \in 1..Len(cs) :
        /\ cs[k].call \in kinds
        /\ cs[k].call = "search_asset" => cs[k].dev = d /\ cs[k].id = 0
        /\ cs[k].call \in {"update_attrs", "update_status"} =>
              cs[k].id \in ActiveIdsFor(pre, d)
        /\ cs[k].call = "create_asset" => cs[k].dev = d

\* C32: the device_registry event handler answers an event with action create
\* or update by one sync_device call for the event's device (one asset search
\* for that device when it is a physical device, then at most the update or
\* create of its asset) and an event with action remove by one
\* mark_asset_deleted call for it (one asset search, then at most the status
\* update of its asset); an event without device_id, with another action, or
\* delivered while no configuration is loaded issues no request and changes
\* nothing; and no exception leaves the handler, whatever the sync or the
\* requests did.
C32_EventDispatch ==
    EventHandled =>
        /\ ~last.raised
        /\ IF last.dev # NoDev /\ flow.loaded /\ last.action \in {"create", "update"}
           THEN /\ last.op = "sync_device"
                /\ RequestsFor(calls, {"search_asset", "update_attrs", "create_asset"}, last.dev)
                /\ NumCall(calls, "search_asset") = (IF Physical(reg, last.dev) THEN 1 ELSE 0)
                /\ NumCall(calls, "update_attrs") + NumCall(calls, "create_asset") <= 1
           ELSE IF last.dev # NoDev /\ flow.loaded /\ last.action = "remove"
           THEN /\ last.op = "mark_asset_deleted"
                /\ RequestsFor(calls, {"search_asset", "update_status"}, last.dev)
                /\ NumCall(calls, "search_asset") = 1
                /\ NumCall(calls, "update_status") <= 1
           ELSE /\ last.op = "none"
                /\ calls = <<>>
                /\ assets = pre

\* A create event for a physical device whose sync raised: the exception
\* stayed in the handler.
C32_Witness ==
    /\ EventHandled
    /\ flow.loaded
    /\ last.action = "create"
    /\ Physical(reg, last.dev)
    /\ NumReq(calls, "search_asset", last.dev, 0) = 1
    /\ last.result = "raised"
    /\ ~last.raised

\* A remove event that set the asset of its device to deleted.
C32_RemoveReached ==
    /\ EventHandled
    /\ last.action = "remove"
    /\ last.result = "True"
    /\ \E i \in ActiveIdsFor(pre, last.dev) :
          /\ Answered(calls, "update_status", NoDev, i, "ok")
          /\ assets[i].status = "deleted"

\* An update event whose asset search ended in an uncaught exception.
C32_SearchExceptionReached ==
    /\ EventHandled
    /\ last.action = "update"
    /\ Answered(calls, "search_asset", last.dev, 0, "exc")
    /\ ~last.raised

\* An event without device_id while a configuration is loaded.
C32_NoDeviceIdReached ==
    /\ EventHandled
    /\ flow.loaded
    /\ last.dev = NoDev
    /\ last.action = "update"
    /\ calls = <<>>

\* An event with an action other than create, update and remove, for a
\* physical device that has an asset.
C32_OtherActionReached ==
    /\ EventHandled
    /\ flow.loaded
    /\ last.action = "other"
    /\ Physical(reg, last.dev)
    /\ ActiveIdsFor(assets, last.dev) # {}
    /\ calls = <<>>

\* A remove event for a device that has an asset, with no configuration
\* loaded.
C32_NotLoadedReached ==
    /\ EventHandled
    /\ ~flow.loaded
    /\ last.action = "remove"
    /\ last.dev # NoDev
    /\ ActiveIdsFor(assets, last.dev) # {}
    /\ calls = <<>>

====
